---- MODULE Spec2Model ----
(***************************************************************************)
(* A model of the verification engine of rust_verifier:                    *)
(*   - the life cycle of one Verification (verification/verification.rs),  *)
(*   - the construction of a VerificationSuite (verification/suite.rs),    *)
(*   - the setup checks 01.01, 03.03, 03.04, 305, 03.09, 04.01 and the     *)
(*     Schnorr proof check over an abstract content of the setup directory,*)
(*   - the hashable projection of the signed payloads (data_structures).   *)
(***************************************************************************)
EXTENDS Integers, Sequences, FiniteSets, TLC

VARIABLES
    \* ---- one Verification object (verification.rs:16-22)
    status,           \* VerificationStatus
    verification_fn,  \* the check function: the events it pushes on the directory
    duration,         \* Option<Duration>
    result,           \* VerificationResult: [errors, failures]
    pc,               \* position inside run(): "idle", "running", "panicked"
    next_event,       \* index of the next event the check function pushes
    runs,             \* number of calls of run() that returned
    pushed            \* history: number of errors / failures the check pushed

verifVars == <<status, verification_fn, duration, result, pc, next_event, runs, pushed>>

VARIABLES
    \* ---- one VerificationSuite (suite.rs:30-34) and the calls that made it
    suite_args,       \* the period and the exclusion list given to VerificationSuite::new
    suite,            \* the VerificationSuite: [period, list, exclusion]
    not_implemented   \* last result of get_not_implemented_verifications_id, with its arguments

suiteVars == <<suite_args, suite, not_implemented>>

VARIABLES
    \* ---- one check function applied to one verification directory
    dir,              \* the content of the directory, as the getters return it
    read_dir,         \* the numbers of the files of the control component group,
                      \* in the order the file system enumerates them
    chk               \* None, or Some([check, outcome, events]) once a check ran

checkVars == <<dir, read_dir, chk>>

VARIABLES
    \* ---- a payload and what is computed from it outside of a check
    signed_payload,   \* None, or Some([type, fields]): a decoded payload record
    hashable,         \* None, or Some(r): what get_hashable() returned, once called
    signature         \* None, or Some(r): what get_signature() returned, once called

dataVars == <<signed_payload, hashable, signature>>

VARIABLES
    \* ---- a MockSetupDirectory over the snapshot, and the calls made on it
    mocked,           \* the mocked_* fields of the mock, by the getter they serve
    mock_calls,       \* the mock_* calls made so far: [fct, nr, data]
    returned          \* what the getters called so far returned:
                      \* [on, fct, after, result, real]

mockVars == <<mocked, mock_calls, returned>>

VARIABLES
    \* ---- a File and the call of get_data on it
    file,             \* the file: [state, content, utf8]
    file_data         \* None, or Some(r): what File::get_data returned

fileVars == <<file, file_data>>

VARIABLES
    \* ---- the dataset given to the application, and the calls made on it
    fs,               \* what is at the path of the dataset: [path, setup, tally]
    dir_checks,       \* the checks of the dataset made so far: [fct, period, result]
    \* ---- the static schema cells and the threads that ask for a schema
    cells,            \* the OnceLock of every cell: [state, value]
    threads,          \* every thread: [pc, kind, built, got]
    constructions     \* how many times Schema::new ran, by kind

appVars == <<fs, dir_checks, cells, threads, constructions>>

VARIABLES
    \* ---- the VerificationDirectory over the dataset, and the calls made on it
    vdir_period,      \* the period VerificationDirectory::new is called with
    vdir,             \* None, or Some([setup, tally]): the directory, once created
    vdir_calls        \* what the calls on the directory returned: [fct, result]

vdirVars == <<vdir_period, vdir, vdir_calls>>

vars == <<verifVars, suiteVars, checkVars, dataVars, mockVars, fileVars, appVars, vdirVars>>

-----------------------------------------------------------------------------
(* Bounds of the model *)

\* longest check function, in pushed events
MaxEvents == 3
\* number of distinct event messages
MaxMsg == 2
\* number of calls of run() on one Verification
MaxRuns == 2
\* longest exclusion list given to VerificationSuite::new
MaxExclusion == 3
\* number of control components in the setup component's aggregate
MaxNodes == 2
\* longest public key vector
MaxKeyLen == 1
\* most domain errors verifiy_domain() reports for one payload
MaxDomainErrors == 1
\* number of places in which a directory differs from the pristine snapshot
MaxDeviations == 2
\* largest number of a file of the control component group
MaxFileNumber == 5
\* most records in a list inside a signed payload
MaxItems == 2
\* most calls made on a directory and its mock, changes of its files included
MaxCalls == 3
\* number of threads that ask for a schema
MaxThreads == 2

-----------------------------------------------------------------------------
(* Option<T> : None is the empty sequence, Some(x) the one-element sequence *)

None == <<>>

Some(x) == <<x>>

unwrap(o) == o[1]

-----------------------------------------------------------------------------
(* VerificationResult (verification.rs:24-88) *)

EventKinds == {"error", "failure"}

Events == [kind : EventKinds, msg : 1..MaxMsg]

RECURSIVE SeqsUpTo(_, _)
SeqsUpTo(S, n) ==
    IF n = 0 THEN {<<>>}
    ELSE LET shorter == SeqsUpTo(S, n - 1)
         IN  shorter \cup {Append(s, x) : s \in {t \in shorter : Len(t) = n - 1}, x \in S}

\* a check function, seen through what it pushes on the given directory
CheckFunctions == SeqsUpTo(Events, MaxEvents)

VerificationResult_new == [errors |-> <<>>, failures |-> <<>>]

push_error(res, e) == [res EXCEPT !.errors = Append(@, e)]

\* mutant: the failure lands in the error vector
push_failure_into_errors(res, f) == [res EXCEPT !.errors = Append(@, f)]

push_failure(res, f) == [res EXCEPT !.failures = Append(@, f)]

VerificationResult_has_errors(res) == Some(res.errors # <<>>)

\* mutant: failures are reported only in the absence of errors
has_failures_without_errors(res) == Some(res.failures # <<>> /\ res.errors = <<>>)

VerificationResult_has_failures(res) == Some(res.failures # <<>>)

VerificationResult_is_ok(res) ==
    Some(~unwrap(VerificationResult_has_errors(res))
         /\ ~unwrap(VerificationResult_has_failures(res)))

-----------------------------------------------------------------------------
(* Verification (verification.rs:90-173) *)

Verification_is_ok ==
    CASE status = "Stopped"  -> None
      [] status = "Running"  -> None
      [] status = "Finished" -> VerificationResult_is_ok(result)

\* has_errors() that reports the errors pushed so far while the check runs
has_errors_while_running ==
    CASE status = "Stopped"  -> None
      [] status = "Running"  -> VerificationResult_has_errors(result)
      [] status = "Finished" -> VerificationResult_has_errors(result)

Verification_has_errors ==
    CASE status = "Stopped"  -> None
      [] status = "Running"  -> None
      [] status = "Finished" -> VerificationResult_has_errors(result)

Verification_has_failures ==
    CASE status = "Stopped"  -> None
      [] status = "Running"  -> None
      [] status = "Finished" -> VerificationResult_has_failures(result)

Verification_errors == result.errors

Verification_failures == result.failures

\* Verification::new(meta_data, verification_fn)
Verification_new(f) ==
    /\ status = "Stopped"
    /\ verification_fn = f
    /\ duration = None
    /\ result = VerificationResult_new
    /\ pc = "idle"
    /\ next_event = 1
    /\ runs = 0
    /\ pushed = [error |-> 0, failure |-> 0]

\* the result run() hands to the check function: self.result.as_mut()
RunResult == result

\* run(), line 105: the status becomes Running and the check function is entered
RunStart ==
    /\ pc = "idle"
    /\ runs < MaxRuns
    /\ status' = "Running"
    /\ result' = RunResult
    /\ pc' = "running"
    /\ next_event' = 1
    /\ UNCHANGED <<verification_fn, duration, runs, pushed>>
    /\ UNCHANGED <<suiteVars, checkVars, dataVars, mockVars, fileVars, appVars, vdirVars>>

\* run(), line 111: one push_error / push_failure of the check function
RunPush ==
    /\ pc = "running"
    /\ next_event <= Len(verification_fn)
    /\ LET e == verification_fn[next_event]
       IN  /\ result' = IF e.kind = "error" THEN push_error(result, e.msg)
                                            ELSE push_failure(result, e.msg)
           /\ pushed' = [pushed EXCEPT ![e.kind] = @ + 1]
    /\ next_event' = next_event + 1
    /\ UNCHANGED <<status, verification_fn, duration, pc, runs>>
    /\ UNCHANGED <<suiteVars, checkVars, dataVars, mockVars, fileVars, appVars, vdirVars>>

\* run(), lines 112-137: the check function returned, elapsed() is Ok
RunFinish ==
    /\ pc = "running"
    /\ next_event > Len(verification_fn)
    /\ duration' = Some("elapsed")
    /\ status' = "Finished"
    /\ pc' = "idle"
    /\ runs' = runs + 1
    /\ UNCHANGED <<verification_fn, result, next_event, pushed>>
    /\ UNCHANGED <<suiteVars, checkVars, dataVars, mockVars, fileVars, appVars, vdirVars>>

\* run(), line 112: SystemTime::elapsed() is Err when the system clock was set
\* back during the check, and unwrap() panics
RunClockPanic ==
    /\ pc = "running"
    /\ next_event > Len(verification_fn)
    /\ pc' = "panicked"
    /\ UNCHANGED <<status, verification_fn, duration, result, next_event, runs, pushed>>
    /\ UNCHANGED <<suiteVars, checkVars, dataVars, mockVars, fileVars, appVars, vdirVars>>

-----------------------------------------------------------------------------
(* Verification ids: a String is the sequence of its bytes *)

Digit(n) == 48 + n

\* the id "aa.bb"
Id(a, b) == <<Digit(a \div 10), Digit(a % 10), 46, Digit(b \div 10), Digit(b % 10)>>

\* the String "toto" of test_with_exclusion
toto == <<116, 111, 116, 111>>

\* Ord for String: lexicographic on the bytes
RECURSIVE StrLess(_, _)
StrLess(a, b) ==
    IF b = <<>> THEN FALSE
    ELSE IF a = <<>> THEN TRUE
    ELSE IF Head(a) # Head(b) THEN Head(a) < Head(b)
    ELSE StrLess(Tail(a), Tail(b))

RECURSIVE Insert(_, _)
Insert(x, sorted) ==
    IF sorted = <<>> THEN <<x>>
    ELSE IF StrLess(x, Head(sorted)) THEN <<x>> \o sorted
    ELSE <<Head(sorted)>> \o Insert(x, Tail(sorted))

\* Vec<String>::sort (stable, ascending)
RECURSIVE sort(_)
sort(v) == IF v = <<>> THEN <<>> ELSE Insert(v[Len(v)], sort(SubSeq(v, 1, Len(v) - 1)))

contains(v, x) == \E i \in 1..Len(v) : v[i] = x

Reverse(v) == [i \in 1..Len(v) |-> v[Len(v) + 1 - i]]

-----------------------------------------------------------------------------
(* The catalogue (suite.rs:146-161) and the metadata table *)

Periods == {"Setup", "Tally"}

IMPL_SETUP_TESTS ==
    <<Id(1, 1), Id(2, 1), Id(2, 3), Id(2, 4), Id(2, 5), Id(2, 6), Id(2, 7), Id(3, 1),
      Id(3, 2), Id(3, 3), Id(3, 4), Id(3, 5), Id(3, 6), Id(3, 7), Id(3, 8), Id(3, 9),
      Id(3, 13), Id(3, 15), Id(4, 1), Id(5, 1), Id(5, 2), Id(5, 3), Id(5, 4), Id(5, 21)>>

MISSING_SETUP_TESTS ==
    <<Id(2, 2), Id(2, 8), Id(3, 10), Id(3, 11), Id(3, 12), Id(3, 14), Id(5, 22)>>

IMPL_TALLY_TESTS == <<Id(6, 1), Id(9, 1)>>

MISSING_TALLY_TESTS ==
    <<Id(7, 1), Id(7, 2), Id(7, 3), Id(7, 4), Id(7, 5), Id(7, 6), Id(7, 7), Id(8, 1),
      Id(8, 2), Id(8, 3), Id(8, 4), Id(8, 5), Id(8, 6), Id(8, 7), Id(8, 8), Id(8, 9),
      Id(8, 10), Id(8, 11), Id(10, 1), Id(10, 2)>>

\* setup::get_verifications, seen through the ids of the verifications it builds
get_verifications_setup == IMPL_SETUP_TESTS

\* tally::get_verifications
get_verifications_tally == IMPL_TALLY_TESTS

\* the order in which the metadata resource lists its ids is not fixed by the code
MetaDataOrders == {"ascending", "descending"}

\* VerificationMetaDataList::load_period(..).id_list(): every id of the period
id_list(period, order) ==
    LET ids == IF period = "Setup" THEN sort(IMPL_SETUP_TESTS \o MISSING_SETUP_TESTS)
                                   ELSE sort(IMPL_TALLY_TESTS \o MISSING_TALLY_TESTS)
    IN  IF order = "ascending" THEN ids ELSE Reverse(ids)

\* the ids a caller may put in an exclusion list: ids of both periods, a
\* metadata id without implementation, and a string that is no id at all
ExclusionIds == {Id(2, 1), Id(5, 1), Id(6, 1), Id(2, 2), toto}

ExclusionLists == SeqsUpTo(ExclusionIds, MaxExclusion)

-----------------------------------------------------------------------------
(* VerificationSuite (suite.rs:39-139) *)

\* mutant: the exclusion list is kept as given
exclusion_not_retained(exclusion, all_ids) == exclusion

\* suite.rs:57-58
retain_exclusion(exclusion, all_ids) == SelectSeq(exclusion, LAMBDA x : contains(all_ids, x))

\* mutant: only the first id of the exclusion list is honoured
retain_first_excluded_only(all_verifs, exclusion) ==
    SelectSeq(all_verifs, LAMBDA x : ~(exclusion # <<>> /\ exclusion[1] = x))

\* suite.rs:56
retain_verifs(all_verifs, exclusion) == SelectSeq(all_verifs, LAMBDA x : ~contains(exclusion, x))

VerificationSuite_new(period, exclusion) ==
    LET all_verifs == IF period = "Setup" THEN get_verifications_setup
                                          ELSE get_verifications_tally
        all_ids == all_verifs
    IN  [period |-> period,
         list |-> retain_verifs(all_verifs, exclusion),
         exclusion |-> retain_exclusion(exclusion, all_ids)]

len(s) == Len(s.list)

is_empty(s) == len(s) = 0

VerificationSuite_exclusion(s) == s.exclusion

len_excluded(s) == Len(s.exclusion)

collect_id(s) == sort(s.list)

\* mutant: the difference is returned in the order of the metadata table
not_implemented_unsorted(period, order) ==
    LET all_id == id_list(period, order)
        verifs_id == collect_id(VerificationSuite_new(period, <<>>))
    IN  SelectSeq(all_id, LAMBDA x : ~contains(verifs_id, x))

get_not_implemented_verifications_id(period, order) ==
    LET all_id == id_list(period, order)
        verifs_id == collect_id(VerificationSuite_new(period, <<>>))
        diff == SelectSeq(all_id, LAMBDA x : ~contains(verifs_id, x))
    IN  sort(diff)

\* the arguments of a call of VerificationSuite::new that is about to happen
SuiteInit(period, excl) ==
    /\ suite_args = [period |-> period, exclusion |-> excl]
    /\ suite = None
    /\ not_implemented = None

\* VerificationSuite::new(period, metadata_list, exclusion, config)
SuiteNew ==
    /\ suite = None
    /\ suite' = Some(VerificationSuite_new(suite_args.period, suite_args.exclusion))
    /\ UNCHANGED <<suite_args, not_implemented>>
    /\ UNCHANGED <<verifVars, checkVars, dataVars, mockVars, fileVars, appVars, vdirVars>>

\* get_not_implemented_verifications_id(period, config)
GetNotImplemented ==
    /\ not_implemented = None
    /\ \E period \in Periods, order \in MetaDataOrders :
           not_implemented' =
               Some([period |-> period, order |-> order,
                     ids |-> get_not_implemented_verifications_id(period, order)])
    /\ UNCHANGED <<suite_args, suite>>
    /\ UNCHANGED <<verifVars, checkVars, dataVars, mockVars, fileVars, appVars, vdirVars>>

SuiteNext ==
    \/ SuiteNew
    \/ GetNotImplemented


-----------------------------------------------------------------------------
(* The content of a verification directory (file_structure) *)

\* Result<T, E>, as the getters return it
Ok(x) == [ok |-> TRUE, val |-> x]

Err(m) == [ok |-> FALSE, err |-> m]

\* a file on disk: missing, unreadable, not decodable, or holding a payload
FileFaults == {"missing", "unreadable", "invalid"}

\* the path of the files of a snapshot is a Unicode string (utf8)
Valid(payload) == [state |-> "valid", content |-> <<payload>>, utf8 |-> TRUE]

Faulty(fault) == [state |-> fault, content |-> <<>>, utf8 |-> TRUE]

\* File::exists (file.rs:42-44)
exists(f) == f.state # "missing"

\* Path::to_str: the path as a string, if it is a Unicode string
Path_to_str(f) == IF f.utf8 THEN Some("path") ELSE None

\* the call does not return: the thread panics
Aborted == [aborted |-> TRUE]

\* an error whose message is made with File::to_str (file.rs:50-52), which
\* unwraps the path as a string
ErrorWithPath(f, m) == IF Path_to_str(f) = None THEN Aborted ELSE Err(m)

\* File::get_data (file.rs:64-88)
get_data(f) ==
    IF ~exists(f) THEN ErrorWithPath(f, "File does not exists")
    ELSE IF f.state = "unreadable"
         THEN ErrorWithPath(f, "Cannot read the content of the file")
         ELSE IF f.state = "invalid"
              THEN ErrorWithPath(f, "Content of the file is not valid")
              ELSE Ok(f.content[1])

NodeIds == 1..MaxNodes

KeyValues == {1, 2}

KeyVectors == SeqsUpTo(KeyValues, MaxKeyLen)

ElectionEventIds == {"EE1", "EE2"}

\* the names of the verification card set directories of the snapshot
VcsNames == <<"vcs1", "vcs2">>

\* BigUint product of the i-th CCR keys of the nodes (fold from one)
Product(nodes, i) ==
    LET acc[j \in 0..Len(nodes)] ==
            IF j = 0 THEN 1
            ELSE acc[j - 1] * nodes[j].ccrj_choice_return_codes_encryption_public_key[i]
    IN  acc[Len(nodes)]

\* a Schnorr proof, by what it proves: knowledge of the secret of a public
\* key, bound to auxiliary strings
SchnorrProof(key, aux) == [key |-> key, aux |-> aux]

\* verify_schnorr (crypto_primitives), in the one encryption group of the
\* snapshot: the proof verifies for the key and the auxiliary strings it was
\* made for, and for no other
verify_schnorr(proof, key, aux) == proof.key = key /\ proof.aux = aux

\* ControlComponentPublicKeys of node j in the pristine snapshot
PristineNode(j) ==
    [node_id |-> j,
     ccrj_choice_return_codes_encryption_public_key |-> [i \in 1..MaxKeyLen |-> 2],
     ccrj_schnorr_proofs |->
         [i \in 1..MaxKeyLen |-> SchnorrProof(2, <<"EE1", "GenKeysCCR", ToString(j)>>)],
     ccmj_election_public_key |-> [i \in 1..MaxKeyLen |-> 1],
     ccmj_schnorr_proofs |->
         [i \in 1..MaxKeyLen |-> SchnorrProof(1, <<"EE1", "SetupTallyCCM", ToString(j)>>)]]

PristineNodes == [j \in NodeIds |-> PristineNode(j)]

\* a snapshot in which every file is present and every payload conformant
PristineDirectory ==
    [period |-> "Setup",
     encryption_parameters_payload |-> Valid([encryption_group |-> [p |-> 3]]),
     election_event_context_payload |->
         Valid([election_event_id |-> "EE1", domain_errors |-> 0]),
     setup_component_public_keys_payload |->
         Valid([election_event_id |-> "EE1",
                domain_errors |-> 0,
                setup_component_public_keys |->
                    [combined_control_component_public_keys |-> PristineNodes,
                     electoral_board_public_key |-> [i \in 1..MaxKeyLen |-> 1],
                     electoral_board_schnorr_proofs |->
                         [i \in 1..MaxKeyLen |-> SchnorrProof(1, <<"EE1", "SetupTallyEB">>)],
                     choice_return_codes_encryption_public_key |->
                         [i \in 1..MaxKeyLen |-> Product(PristineNodes, i) % 3]]]),
     election_event_configuration |-> Valid([domain_errors |-> 0]),
     control_component_public_keys_payload_group |->
         [j \in NodeIds |->
             Valid([election_event_id |-> "EE1",
                    domain_errors |-> 0,
                    control_component_public_keys |-> PristineNode(j)])],
     vcs_directories |->
         [v \in 1..Len(VcsNames) |->
           [name |-> VcsNames[v],
            setup_component_tally_data_payload |->
                Valid([election_event_id |-> "EE1", domain_errors |-> 0]),
            control_component_code_shares_payload_group |->
                <<Valid(<<[election_event_id |-> "EE1", chunk_id |-> 0,
                           domain_errors |-> 0]>>)>>,
            setup_component_verification_data_payload_group |->
                <<Valid([election_event_id |-> "EE1", domain_errors |-> 0])>>]]]

\* SetupDirectoryTrait getters (setup_directory.rs:201-222)
encryption_parameters_payload(d) == get_data(d.encryption_parameters_payload)

election_event_context_payload(d) == get_data(d.election_event_context_payload)

setup_component_public_keys_payload(d) == get_data(d.setup_component_public_keys_payload)

election_event_configuration(d) == get_data(d.election_event_configuration)

\* FileGroup::get_file_with_number
get_file_with_number(group, nr) == group[nr]

\* FileGroup::get_numbers: the numbers of the files of the group, ascending
get_numbers(group) == SelectSeq([i \in 1..Len(group) |-> i], LAMBDA i : exists(group[i]))

\* VCSDirectoryTrait::setup_component_tally_data_payload (setup_directory.rs:257-264)
setup_component_tally_data_payload(vcs) == get_data(vcs.setup_component_tally_data_payload)

-----------------------------------------------------------------------------
(* Events and outcomes of a check function *)

create_verification_error(msg) == [kind |-> "error", msg |-> msg]

create_verification_failure(msg) == [kind |-> "failure", msg |-> msg]

Returned(events) == [outcome |-> "returned", events |-> events]

Panicked == [outcome |-> "panicked", events |-> <<>>]

\* the concatenation of F(1), ..., F(n): the events of a for loop
FlatMap(n, F(_)) ==
    LET acc[i \in 0..n] == IF i = 0 THEN <<>> ELSE acc[i - 1] \o F(i)
    IN  acc[n]

\* one event per domain error of a payload
ForEachDomainError(payload, event) == [i \in 1..payload.domain_errors |-> event]

-----------------------------------------------------------------------------
(* VerifyChoiceReturnCodesPublicKeyConsistency
   (verify_choice_return_codes_public_key_consistency.rs:30-78) *)

\* line 67: indexing a node's CCR key vector at position i panics when the
\* vector is shorter
IndexPanics(nodes, setup_ccr) ==
    \E i \in 1..Len(setup_ccr), j \in 1..Len(nodes) :
        i > Len(nodes[j].ccrj_choice_return_codes_encryption_public_key)

fn_verification_305(d) ==
    LET ep == encryption_parameters_payload(d)
        sc == setup_component_public_keys_payload(d)
    IN  IF ~ep.ok
        THEN Returned(<<create_verification_error(
                 <<"Cannot extract encryption_parameters_payload">>)>>)
        ELSE IF ~sc.ok
        THEN Returned(<<create_verification_error(
                 <<"Cannot extract setup_component_public_keys_payload">>)>>)
        ELSE
            LET eg_p == ep.val.encryption_group.p
                keys == sc.val.setup_component_public_keys
                setup_ccr == keys.choice_return_codes_encryption_public_key
                nodes == keys.combined_control_component_public_keys
                AtPosition(i) ==
                    IF Product(nodes, i) % eg_p # setup_ccr[i]
                    THEN <<create_verification_failure(
                             <<"The ccr at position {} is not the product of the cc ccr",
                               ToString(i - 1)>>)>>
                    ELSE <<>>
            IN  IF IndexPanics(nodes, setup_ccr) THEN Panicked
                ELSE Returned(FlatMap(Len(setup_ccr), AtPosition))

-----------------------------------------------------------------------------
(* 03.04 VerifyCcmElectionPublicKeyConsistency
   (v0304_ccm_election_pk_consistency.rs:14-69) *)

FileName(nr) == <<"controlComponentPublicKeysPayload.{}.json", ToString(nr)>>

validate_cc_ccm_pk(d, setup, node_id) ==
    LET f == get_file_with_number(d.control_component_public_keys_payload_group, node_id)
        data == get_data(f)
    IN  IF ~data.ok
        THEN <<create_verification_error(<<"Cannot read data from file {}">> \o FileName(node_id))>>
        ELSE
            LET cc_pk == data.val.control_component_public_keys
            IN  IF Len(setup.ccmj_election_public_key) # Len(cc_pk.ccmj_election_public_key)
                THEN <<create_verification_failure(
                         <<"The length of CCM public keys for control component {} are identical from both sources",
                           ToString(node_id)>>)>>
                ELSE IF setup.ccrj_choice_return_codes_encryption_public_key
                            # cc_pk.ccrj_choice_return_codes_encryption_public_key
                THEN <<create_verification_failure(
                         <<"The CCM public keys for control component {} are identical from both sources",
                           ToString(node_id)>>)>>
                ELSE <<>>

fn_verification_0304(d) ==
    LET sc == setup_component_public_keys_payload(d)
    IN  IF ~sc.ok
        THEN Returned(<<create_verification_error(
                 <<"Cannot extract setup_component_public_keys_payload">>)>>)
        ELSE
            LET nodes == sc.val.setup_component_public_keys.combined_control_component_public_keys
                ForNode(j) == validate_cc_ccm_pk(d, nodes[j], nodes[j].node_id)
            IN  Returned(FlatMap(Len(nodes), ForNode))

-----------------------------------------------------------------------------
(* 03.03 VerifyCcrChoiceReturnCodesPublicKeyConsistency
   (v0303_ccr_choice_return_codes_pk_consistency.rs:15-70) *)

\* only the lengths of the two CCR key vectors are compared
validate_cc_ccr_enc_pk_lengths_only(d, setup, node_id) ==
    LET f == get_file_with_number(d.control_component_public_keys_payload_group, node_id)
        data == get_data(f)
    IN  IF ~data.ok
        THEN <<create_verification_error(<<"Cannot read data from file {}">> \o FileName(node_id))>>
        ELSE
            LET cc_pk == data.val.control_component_public_keys
            IN  IF Len(setup.ccrj_choice_return_codes_encryption_public_key)
                       # Len(cc_pk.ccrj_choice_return_codes_encryption_public_key)
                THEN <<create_verification_failure(
                         <<"The length of CCR Choice Return Codes encryption public keys for control component {} are identical from both sources",
                           ToString(node_id)>>)>>
                ELSE <<>>

validate_cc_ccr_enc_pk(d, setup, node_id) ==
    LET f == get_file_with_number(d.control_component_public_keys_payload_group, node_id)
        data == get_data(f)
    IN  IF ~data.ok
        THEN <<create_verification_error(<<"Cannot read data from file {}">> \o FileName(node_id))>>
        ELSE
            LET cc_pk == data.val.control_component_public_keys
            IN  IF Len(setup.ccrj_choice_return_codes_encryption_public_key)
                       # Len(cc_pk.ccrj_choice_return_codes_encryption_public_key)
                THEN <<create_verification_failure(
                         <<"The length of CCR Choice Return Codes encryption public keys for control component {} are identical from both sources",
                           ToString(node_id)>>)>>
                ELSE IF setup.ccrj_choice_return_codes_encryption_public_key
                            # cc_pk.ccrj_choice_return_codes_encryption_public_key
                THEN <<create_verification_failure(
                         <<"The CCR Choice Return Codes encryption public keys for control component {} are identical from both sources",
                           ToString(node_id)>>)>>
                ELSE <<>>

fn_verification_0303(d) ==
    LET sc == setup_component_public_keys_payload(d)
    IN  IF ~sc.ok
        THEN Returned(<<create_verification_error(
                 <<"Cannot extract setup_component_public_keys_payload">>)>>)
        ELSE
            LET nodes == sc.val.setup_component_public_keys.combined_control_component_public_keys
                ForNode(j) == validate_cc_ccr_enc_pk(d, nodes[j], nodes[j].node_id)
            IN  Returned(FlatMap(Len(nodes), ForNode))

-----------------------------------------------------------------------------
(* 04.01 VerifySetupIntegrity (setup/integrity/mod.rs:32-178) *)

\* one match on a payload getter: a failure per domain error when the payload
\* loaded, a failure "has wrong format" when it did not
match_payload(data, domain_msg, format_msg) ==
    IF data.ok THEN ForEachDomainError(data.val, create_verification_failure(domain_msg))
    ELSE <<create_verification_failure(format_msg)>>

\* integrity/mod.rs:32-103
validate_vcs_dir(vcs) ==
    LET shares == vcs.control_component_code_shares_payload_group
        shares_nrs == get_numbers(shares)
        ForShares(k) ==
            LET i == shares_nrs[k]
                f == get_data(shares[i])
                ForEntry(j) ==
                    ForEachDomainError(f.val[j], create_verification_failure(
                        <<"Error verifying domain for {}/control_component_public_keys_payload.{} at entry {}",
                          vcs.name, ToString(i), ToString(j - 1)>>))
            IN  IF f.ok THEN FlatMap(Len(f.val), ForEntry)
                ELSE <<create_verification_failure(
                         <<"{}/control_component_code_shares_payload.{} has wrong format",
                           vcs.name, ToString(i)>>)>>
        verif == vcs.setup_component_verification_data_payload_group
        verif_nrs == get_numbers(verif)
        ForVerif(k) ==
            LET i == verif_nrs[k]
            IN  match_payload(get_data(verif[i]),
                    <<"Error verifying domain for {}/setup_component_verification_data_payload.{}",
                      vcs.name, ToString(i)>>,
                    <<"{}/setup_component_verification_data_payload.{} has wrong format",
                      vcs.name, ToString(i)>>)
    IN  match_payload(setup_component_tally_data_payload(vcs),
            <<"Error verifying domain for {}/setup_component_tally_data_payload", vcs.name>>,
            <<"{}/setup_component_tally_data_payload has wrong format", vcs.name>>)
        \o FlatMap(Len(shares_nrs), ForShares)
        \o FlatMap(Len(verif_nrs), ForVerif)

\* integrity/mod.rs:105-178
fn_0401_verify_setup_integrity(d) ==
    LET group == d.control_component_public_keys_payload_group
        nrs == get_numbers(group)
        ForFile(k) ==
            LET i == nrs[k]
            IN  match_payload(get_data(group[i]),
                    <<"Error verifying domain for control_component_public_keys_payload.{}",
                      ToString(i)>>,
                    <<"control_component_public_keys_payload.{} has wrong format",
                      ToString(i)>>)
        ForVcs(k) == validate_vcs_dir(d.vcs_directories[k])
    IN  Returned(
            match_payload(election_event_context_payload(d),
                <<"Error verifying domain for election_event_context_payload">>,
                <<"election_event_context_payload has wrong format">>)
            \o match_payload(setup_component_public_keys_payload(d),
                <<"Error verifying domain for setup_component_public_keys_payload">>,
                <<"setup_component_public_keys_payload has wrong format">>)
            \o match_payload(election_event_configuration(d),
                <<"Error verifying domain for election_event_configuration">>,
                <<"election_event_configuration has wrong format">>)
            \o FlatMap(Len(nrs), ForFile)
            \o FlatMap(Len(d.vcs_directories), ForVcs))

-----------------------------------------------------------------------------
(* 03.09 VerifyElectionEventIdConsistency
   (v0309_election_event_id_consistency.rs:11-143) *)

\* the failure is pushed without the name of the payload
test_election_event_id_unnamed(ee_id, expected, name) ==
    IF ee_id # expected
    THEN <<create_verification_failure(<<"Election Event ID not equal in {}">>)>>
    ELSE <<>>

\* v0309:11-23
test_election_event_id(ee_id, expected, name) ==
    IF ee_id # expected
    THEN <<create_verification_failure(<<"Election Event ID not equal in {}">> \o name)>>
    ELSE <<>>

\* v0309:25-94
test_ee_id_for_vcs_dir(vcs, expected) ==
    LET tally == setup_component_tally_data_payload(vcs)
        shares == vcs.control_component_code_shares_payload_group
        shares_nrs == get_numbers(shares)
        ForShares(k) ==
            LET i == shares_nrs[k]
                f == get_data(shares[i])
                ForChunk(c) ==
                    test_election_event_id(f.val[c].election_event_id, expected,
                        <<"{}/control_component_code_shares_payload.{}_chunk{}",
                          vcs.name, ToString(i), ToString(f.val[c].chunk_id)>>)
            IN  IF ~f.ok
                THEN <<create_verification_error(
                         <<"{}/control_component_code_shares_payload_.{} has wrong format",
                           vcs.name, ToString(i)>>)>>
                ELSE FlatMap(Len(f.val), ForChunk)
        verif == vcs.setup_component_verification_data_payload_group
        verif_nrs == get_numbers(verif)
        ForVerif(k) ==
            LET i == verif_nrs[k]
                f == get_data(verif[i])
            IN  IF ~f.ok
                THEN <<create_verification_error(
                         <<"{}/setup_component_verification_data_payload.{} has wrong format",
                           vcs.name, ToString(i)>>)>>
                ELSE test_election_event_id(f.val.election_event_id, expected,
                         <<"{}/setup_component_verification_data_payload.{}",
                           ToString(i), vcs.name>>)
    IN  (IF tally.ok
         THEN test_election_event_id(tally.val.election_event_id, expected,
                  <<"{}/setup_component_tally_data_payload", vcs.name>>)
         ELSE <<create_verification_error(
                  <<"{}/setup_component_tally_data_payload has wrong format", vcs.name>>)>>)
        \o FlatMap(Len(shares_nrs), ForShares)
        \o FlatMap(Len(verif_nrs), ForVerif)

\* mutant: the VCS directories are not looked at
fn_verification_0309_without_vcs(d) ==
    LET ctx == election_event_context_payload(d)
    IN  IF ~ctx.ok
        THEN Returned(<<create_verification_error(
                 <<"Cannot extract election_event_context_payload">>)>>)
        ELSE
            LET ee_id == ctx.val.election_event_id
                sc == setup_component_public_keys_payload(d)
                group == d.control_component_public_keys_payload_group
                nrs == get_numbers(group)
                ForFile(k) ==
                    LET i == nrs[k]
                        f == get_data(group[i])
                    IN  IF ~f.ok
                        THEN <<create_verification_error(
                                 <<"control_component_public_keys_payload.{} has wrong format",
                                   ToString(i)>>)>>
                        ELSE test_election_event_id(f.val.election_event_id, ee_id,
                                 <<"control_component_public_keys_payload.{}", ToString(i)>>)
            IN  Returned(
                    (IF sc.ok
                     THEN test_election_event_id(sc.val.election_event_id, ee_id,
                              <<"setup_component_public_keys_payload">>)
                     ELSE <<create_verification_error(
                              <<"election_event_context_payload has wrong format">>)>>)
                    \o FlatMap(Len(nrs), ForFile))

\* v0309:96-143
fn_verification_0309(d) ==
    LET ctx == election_event_context_payload(d)
    IN  IF ~ctx.ok
        THEN Returned(<<create_verification_error(
                 <<"Cannot extract election_event_context_payload">>)>>)
        ELSE
            LET ee_id == ctx.val.election_event_id
                sc == setup_component_public_keys_payload(d)
                group == d.control_component_public_keys_payload_group
                nrs == get_numbers(group)
                ForFile(k) ==
                    LET i == nrs[k]
                        f == get_data(group[i])
                    IN  IF ~f.ok
                        THEN <<create_verification_error(
                                 <<"control_component_public_keys_payload.{} has wrong format",
                                   ToString(i)>>)>>
                        ELSE test_election_event_id(f.val.election_event_id, ee_id,
                                 <<"control_component_public_keys_payload.{}", ToString(i)>>)
                ForVcs(k) == test_ee_id_for_vcs_dir(d.vcs_directories[k], ee_id)
            IN  Returned(
                    (IF sc.ok
                     THEN test_election_event_id(sc.val.election_event_id, ee_id,
                              <<"setup_component_public_keys_payload">>)
                     ELSE <<create_verification_error(
                              <<"election_event_context_payload has wrong format">>)>>)
                    \o FlatMap(Len(nrs), ForFile)
                    \o FlatMap(Len(d.vcs_directories), ForVcs))

-----------------------------------------------------------------------------
(* 01.01 VerifySetupCompleteness (setup/completness/mod.rs:32-94) *)

\* Vec::sort on file numbers
RECURSIVE SortNumbers(_)
SortNumbers(v) ==
    IF v = <<>> THEN <<>>
    ELSE LET rest == SortNumbers(Tail(v))
             below == SelectSeq(rest, LAMBDA x : x <= Head(v))
             above == SelectSeq(rest, LAMBDA x : x > Head(v))
         IN  below \o <<Head(v)>> \o above

\* the group keeps the numbers in the order of the file system
FileGroup_new_as_enumerated(listing) == [numbers |-> listing]

\* FileGroup::new: the numbers of the files found, kept in ascending order
FileGroup_new(listing) == [numbers |-> SortNumbers(listing)]

\* FileGroup::has_elements
has_elements(group) == get_numbers(group) # <<>>

\* the numbers the control component group must hold (mod.rs:82)
RequiredNumbers == <<1, 2, 3, 4>>

\* completness/mod.rs:32-53
validate_vcs_dir_0101(vcs) ==
    (IF ~exists(vcs.setup_component_tally_data_payload)
     THEN <<create_verification_failure(
              <<"setup_component_tally_data_payload does not exist">>)>>
     ELSE <<>>)
    \o (IF ~has_elements(vcs.setup_component_verification_data_payload_group)
        THEN <<create_verification_failure(
                 <<"setup_component_verification_data_payload does not exist">>)>>
        ELSE <<>>)
    \o (IF ~has_elements(vcs.control_component_code_shares_payload_group)
        THEN <<create_verification_failure(
                 <<"control_component_code_shares_payload does not exist">>)>>
        ELSE <<>>)

\* completness/mod.rs:55-94; listing is what the file system enumerates for
\* the control component group
fn_0101_verify_setup_completeness(d, listing) ==
    LET numbers == FileGroup_new(listing).numbers
        ForVcs(k) == validate_vcs_dir_0101(d.vcs_directories[k])
    IN  Returned(
            (IF ~exists(d.election_event_context_payload)
             THEN <<create_verification_failure(
                      <<"election_event_context_payload does not exist">>)>>
             ELSE <<>>)
            \o (IF ~exists(d.setup_component_public_keys_payload)
                THEN <<create_verification_failure(
                         <<"setup_component_public_keys_payload_file does not exist">>)>>
                ELSE <<>>)
            \o (IF ~exists(d.election_event_configuration)
                THEN <<create_verification_failure(
                         <<"setup_component_public_keys_payload_file does not exist">>)>>
                ELSE <<>>)
            \o (IF numbers # RequiredNumbers
                THEN <<create_verification_failure(
                         <<"control_component_public_keys_payload_group missing. only these parts are present: {:?}">>
                         \o [i \in 1..Len(numbers) |-> ToString(numbers[i])])>>
                ELSE <<>>)
            \o FlatMap(Len(d.vcs_directories), ForVcs))

-----------------------------------------------------------------------------
(* VerifyKeyGenerationSchnorrProofs
   (evidence/v503_key_generation_schnorr_proofs.rs:17-135) *)

\* the CCM proofs are verified with the auxiliary strings of the CCR proofs
i_aux_ccm_j_with_ccr_label(ee_id, j) == <<ee_id, "GenKeysCCR", ToString(j)>>

\* auxiliary strings of the Schnorr proofs (v503_key_generation_schnorr_proofs.rs:58-62,
\* 83-87, 109-112)
i_aux_ccr_j(ee_id, j) == <<ee_id, "GenKeysCCR", ToString(j)>>

i_aux_ccm_j(ee_id, j) == <<ee_id, "SetupTallyCCM", ToString(j)>>

i_aux_eb(ee_id) == <<ee_id, "SetupTallyEB">>

\* zip(keys, proofs).enumerate(): the positions that have a key and a proof
ZipPositions(keys, proofs) == 1..(IF Len(keys) <= Len(proofs) THEN Len(keys) ELSE Len(proofs))

\* one for loop over zip(keys, proofs): a failure for every pair that does
\* not verify with the auxiliary strings
VerifyPairs(keys, proofs, aux, msg(_)) ==
    LET n == Cardinality(ZipPositions(keys, proofs))
        AtPosition(i) ==
            IF ~verify_schnorr(proofs[i], keys[i], aux)
            THEN <<create_verification_failure(msg(i))>>
            ELSE <<>>
    IN  FlatMap(n, AtPosition)

fn_verification_503(d) ==
    LET eg == encryption_parameters_payload(d)
        ee_context == election_event_context_payload(d)
        setup_ppk == setup_component_public_keys_payload(d)
    IN  IF ~eg.ok
        THEN Returned(<<create_verification_error(
                 <<"encryption_parameters_payload cannot be read">>)>>)
        ELSE IF ~ee_context.ok
        THEN Returned(<<create_verification_error(
                 <<"election_event_context_payload cannot be read">>)>>)
        ELSE IF ~setup_ppk.ok
        THEN Returned(<<create_verification_error(
                 <<"setup_component_public_keys_payload cannot be read">>)>>)
        ELSE
            LET ee_id == ee_context.val.election_event_id
                keys == setup_ppk.val.setup_component_public_keys
                nodes == keys.combined_control_component_public_keys
                ForNode(n) ==
                    LET combined_cc_pk == nodes[n]
                        j == combined_cc_pk.node_id
                        CcrMsg(i) ==
                            <<"VerifSchnorrCCRji: Verifiy CCR_j Schnorrproof not ok at pos {} for cc {}",
                              ToString(i - 1), ToString(j)>>
                        CcmMsg(i) ==
                            <<"VerifSchnorrCCMji: Verifiy CCM_j Schnorrproof not ok at pos {} for cc {}",
                              ToString(i - 1), ToString(j)>>
                    IN  VerifyPairs(
                            combined_cc_pk.ccrj_choice_return_codes_encryption_public_key,
                            combined_cc_pk.ccrj_schnorr_proofs,
                            i_aux_ccr_j(ee_id, j), CcrMsg)
                        \o VerifyPairs(
                               combined_cc_pk.ccmj_election_public_key,
                               combined_cc_pk.ccmj_schnorr_proofs,
                               i_aux_ccm_j(ee_id, j), CcmMsg)
                EbMsg(i) ==
                    <<"VerifSchnorrCCRji: Verifiy Electoral board Schnorr proofs not ok at pos {}",
                      ToString(i - 1)>>
            IN  Returned(
                    FlatMap(Len(nodes), ForNode)
                    \o VerifyPairs(keys.electoral_board_public_key,
                                   keys.electoral_board_schnorr_proofs,
                                   i_aux_eb(ee_id), EbMsg))

-----------------------------------------------------------------------------
(* The directories the checks are applied to: the pristine snapshot changed
   in at most MaxDeviations places *)

DomainErrorCounts == 1..MaxDomainErrors

\* the file with another number of domain errors in its payload
WithDomainErrors(f, n) ==
    IF f.state = "valid" THEN [f EXCEPT !.content[1].domain_errors = n] ELSE f

\* a single file in every other condition
FileVariants(f) ==
    {Faulty(x) : x \in FileFaults} \cup {WithDomainErrors(f, n) : n \in DomainErrorCounts}

\* the setup component's public keys with one key vector replaced
ScKeyVariants(d, with_ccm) ==
    IF d.setup_component_public_keys_payload.state # "valid" THEN {d}
    ELSE
        {[d EXCEPT !.setup_component_public_keys_payload.content[1]
                     .setup_component_public_keys
                     .combined_control_component_public_keys[j]
                     .ccrj_choice_return_codes_encryption_public_key = k] :
            j \in NodeIds, k \in KeyVectors}
        \cup
        {[d EXCEPT !.setup_component_public_keys_payload.content[1]
                     .setup_component_public_keys
                     .combined_control_component_public_keys[j]
                     .ccmj_election_public_key =
                         IF with_ccm THEN k ELSE @] :
            j \in NodeIds, k \in KeyVectors}

\* the combined CCR key replaced
CombinedKeyVariants(d) ==
    IF d.setup_component_public_keys_payload.state # "valid" THEN {d}
    ELSE
        {[d EXCEPT !.setup_component_public_keys_payload.content[1]
                     .setup_component_public_keys
                     .choice_return_codes_encryption_public_key = k] : k \in KeyVectors}

\* one control component's file faulty, or with one key vector replaced
NodeFileVariants(d) ==
    {[d EXCEPT !.control_component_public_keys_payload_group[j] = Faulty(x)] :
        j \in NodeIds, x \in FileFaults}
    \cup
    UNION {IF d.control_component_public_keys_payload_group[j].state # "valid" THEN {d}
           ELSE {[d EXCEPT !.control_component_public_keys_payload_group[j].content[1]
                             .control_component_public_keys
                             .ccrj_choice_return_codes_encryption_public_key = k] :
                     k \in KeyVectors}
                \cup
                {[d EXCEPT !.control_component_public_keys_payload_group[j].content[1]
                             .control_component_public_keys
                             .ccmj_election_public_key = k] :
                     k \in KeyVectors} :
           j \in NodeIds}

\* one payload file of the directory faulty or with domain errors
PayloadVariants(d) ==
    {[d EXCEPT !.election_event_context_payload = f] :
        f \in FileVariants(d.election_event_context_payload)}
    \cup {[d EXCEPT !.setup_component_public_keys_payload = f] :
        f \in FileVariants(d.setup_component_public_keys_payload)}
    \cup {[d EXCEPT !.election_event_configuration = f] :
        f \in FileVariants(d.election_event_configuration)}
    \cup UNION {{[d EXCEPT !.control_component_public_keys_payload_group[j] = f] :
                    f \in FileVariants(d.control_component_public_keys_payload_group[j])} :
                j \in NodeIds}
    \cup {[d EXCEPT !.vcs_directories[1].setup_component_tally_data_payload = f] :
        f \in FileVariants(d.vcs_directories[1].setup_component_tally_data_payload)}
    \cup {[d EXCEPT !.vcs_directories[1].setup_component_verification_data_payload_group[1] = f] :
        f \in FileVariants(
                 d.vcs_directories[1].setup_component_verification_data_payload_group[1])}
    \cup {[d EXCEPT !.vcs_directories[1].control_component_code_shares_payload_group[1] = f] :
        f \in {Faulty(x) : x \in FileFaults}
              \cup {Valid(<<[election_event_id |-> "EE1", chunk_id |-> 0,
                             domain_errors |-> n]>>) : n \in DomainErrorCounts}}

\* the file with another election event id in its payload
WithElectionEventId(f, id) ==
    IF f.state = "valid" THEN [f EXCEPT !.content[1].election_event_id = id] ELSE f

\* a single file in every other condition, for a check of the election event id
IdFileVariants(f) ==
    {Faulty(x) : x \in FileFaults}
    \cup (IF f.state = "valid"
          THEN {[f EXCEPT !.content[1].election_event_id = id] : id \in ElectionEventIds}
          ELSE {})

\* a file of code shares in every other condition: faulty, or with the id of
\* its chunk replaced
IdSharesVariants(f) ==
    {Faulty(x) : x \in FileFaults}
    \cup (IF f.state = "valid"
          THEN {[f EXCEPT !.content[1][1].election_event_id = id] : id \in ElectionEventIds}
          ELSE {})

\* one payload that carries an election event id faulty or with another id
ElectionEventIdVariants(d) ==
    {[d EXCEPT !.election_event_context_payload = f] :
        f \in IdFileVariants(d.election_event_context_payload)}
    \cup {[d EXCEPT !.setup_component_public_keys_payload = f] :
        f \in IdFileVariants(d.setup_component_public_keys_payload)}
    \cup UNION {{[d EXCEPT !.control_component_public_keys_payload_group[j] = f] :
                    f \in IdFileVariants(d.control_component_public_keys_payload_group[j])} :
                j \in NodeIds}
    \cup UNION {
          {[d EXCEPT !.vcs_directories[v].setup_component_tally_data_payload = f] :
              f \in IdFileVariants(d.vcs_directories[v].setup_component_tally_data_payload)}
          \cup
          {[d EXCEPT !.vcs_directories[v].setup_component_verification_data_payload_group[1] = f] :
              f \in IdFileVariants(
                       d.vcs_directories[v].setup_component_verification_data_payload_group[1])}
          \cup
          {[d EXCEPT !.vcs_directories[v].control_component_code_shares_payload_group[1] = f] :
              f \in IdSharesVariants(
                       d.vcs_directories[v].control_component_code_shares_payload_group[1])} :
          v \in 1..Len(d.vcs_directories)}

\* one file of those 01.01 looks for, other than the control component
\* group, missing
MissingFileVariants(d) ==
    {[d EXCEPT !.election_event_context_payload = Faulty("missing")],
     [d EXCEPT !.setup_component_public_keys_payload = Faulty("missing")],
     [d EXCEPT !.election_event_configuration = Faulty("missing")]}
    \cup UNION {
          {[d EXCEPT !.vcs_directories[v].setup_component_tally_data_payload =
                         Faulty("missing")],
           [d EXCEPT !.vcs_directories[v].setup_component_verification_data_payload_group[1] =
                         Faulty("missing")],
           [d EXCEPT !.vcs_directories[v].control_component_code_shares_payload_group[1] =
                         Faulty("missing")]} :
          v \in 1..Len(d.vcs_directories)}

\* the orders in which a file system can enumerate the files of a group:
\* every sequence of distinct file numbers
Listings ==
    {l \in SeqsUpTo(1..MaxFileNumber, MaxFileNumber) :
        \A i, j \in 1..Len(l) : i # j => l[i] # l[j]}

\* the files of the control component group, given the numbers enumerated
GroupOf(listing) ==
    [n \in 1..MaxFileNumber |->
        IF \E i \in 1..Len(listing) : listing[i] = n
        THEN Valid([election_event_id |-> "EE1",
                    domain_errors |-> 0,
                    control_component_public_keys |-> PristineNode(n)])
        ELSE Faulty("missing")]

\* the proofs that differ from proof p in one respect: made for another key,
\* for another election event, with the label of another kind of proof, or
\* for the next control component
OtherProofs(p) ==
    {[p EXCEPT !.key = k] : k \in KeyValues \ {p.key}}
    \cup {[p EXCEPT !.aux[1] = id] : id \in ElectionEventIds \ {p.aux[1]}}
    \cup {[p EXCEPT !.aux[2] = IF @ = "GenKeysCCR" THEN "SetupTallyCCM" ELSE "GenKeysCCR"]}
    \cup (IF Len(p.aux) = 3
          THEN {[p EXCEPT !.aux[3] = ToString((j % MaxNodes) + 1)] :
                   j \in {n \in NodeIds : ToString(n) = p.aux[3]}}
          ELSE {})

\* a vector without its last element
DropLast(v) == IF v = <<>> THEN v ELSE SubSeq(v, 1, Len(v) - 1)

\* a vector of proofs with one proof replaced, or without its last proof
ProofVectorVariants(v) ==
    {DropLast(v)}
    \cup UNION {{[v EXCEPT ![i] = q] : q \in OtherProofs(v[i])} : i \in 1..Len(v)}

\* the payloads the Schnorr proof check reads, with one file faulty, another
\* election event id, one proof replaced, or one vector shortened
SchnorrVariants(d) ==
    {[d EXCEPT !.encryption_parameters_payload = Faulty("invalid")],
     [d EXCEPT !.election_event_context_payload = Faulty("invalid")],
     [d EXCEPT !.election_event_context_payload = WithElectionEventId(@, "EE2")],
     [d EXCEPT !.setup_component_public_keys_payload = Faulty("invalid")],
     [d EXCEPT !.setup_component_public_keys_payload = WithElectionEventId(@, "EE2")]}
    \cup (IF d.setup_component_public_keys_payload.state # "valid" THEN {}
          ELSE LET keys == d.setup_component_public_keys_payload.content[1]
                               .setup_component_public_keys
                   nodes == keys.combined_control_component_public_keys
               IN  UNION {
                     {[d EXCEPT !.setup_component_public_keys_payload.content[1]
                                  .setup_component_public_keys
                                  .combined_control_component_public_keys[j]
                                  .ccrj_schnorr_proofs = v] :
                         v \in ProofVectorVariants(nodes[j].ccrj_schnorr_proofs)}
                     \cup
                     {[d EXCEPT !.setup_component_public_keys_payload.content[1]
                                  .setup_component_public_keys
                                  .combined_control_component_public_keys[j]
                                  .ccmj_schnorr_proofs = v] :
                         v \in ProofVectorVariants(nodes[j].ccmj_schnorr_proofs)}
                     \cup
                     {[d EXCEPT !.setup_component_public_keys_payload.content[1]
                                  .setup_component_public_keys
                                  .combined_control_component_public_keys[j]
                                  .ccrj_choice_return_codes_encryption_public_key =
                                      DropLast(@)],
                      [d EXCEPT !.setup_component_public_keys_payload.content[1]
                                  .setup_component_public_keys
                                  .combined_control_component_public_keys[j]
                                  .ccmj_election_public_key = DropLast(@)]} :
                     j \in NodeIds}
                   \cup
                   {[d EXCEPT !.setup_component_public_keys_payload.content[1]
                                .setup_component_public_keys
                                .electoral_board_schnorr_proofs = v] :
                       v \in ProofVectorVariants(keys.electoral_board_schnorr_proofs)}
                   \cup
                   {[d EXCEPT !.setup_component_public_keys_payload.content[1]
                                .setup_component_public_keys
                                .electoral_board_public_key = DropLast(@)]})

\* the directories one deviation away from d, for the inputs of one check
Variants(d, check) ==
    CASE check = "305" ->
            {[d EXCEPT !.encryption_parameters_payload = Faulty(x)] : x \in FileFaults}
            \cup {[d EXCEPT !.setup_component_public_keys_payload = Faulty(x)] :
                     x \in FileFaults}
            \cup CombinedKeyVariants(d)
            \cup ScKeyVariants(d, FALSE)
      [] check = "03.04" ->
            {[d EXCEPT !.setup_component_public_keys_payload = Faulty(x)] : x \in FileFaults}
            \cup ScKeyVariants(d, TRUE)
            \cup NodeFileVariants(d)
      [] check = "03.03" ->
            {[d EXCEPT !.setup_component_public_keys_payload = Faulty(x)] : x \in FileFaults}
            \cup ScKeyVariants(d, TRUE)
            \cup NodeFileVariants(d)
      [] check = "503" -> SchnorrVariants(d)
      [] check = "01.01" -> MissingFileVariants(d)
      [] check = "03.09" -> ElectionEventIdVariants(d)
      [] check = "04.01" -> PayloadVariants(d)

\* dir is d changed in at most n places
RECURSIVE DirectoryWithin(_, _, _)
DirectoryWithin(d, check, n) ==
    IF n = 0 THEN dir = d
    ELSE \E e \in {d} \cup Variants(d, check) : DirectoryWithin(e, check, n - 1)

-----------------------------------------------------------------------------
(* Specifications *)

-----------------------------------------------------------------------------
(* The setup directory and its mock (file_structure) *)

\* the getters of the payload of a single file
PayloadGetters ==
    {"setup_component_public_keys_payload", "election_event_context_payload",
     "election_event_configuration"}

\* the getters of a file or of a group of files
FileGetters ==
    {"setup_component_public_keys_payload_file", "election_event_context_payload_file",
     "election_event_configuration_file", "control_component_public_keys_payload_group"}

\* the getter of the payloads of the files of a group
IterGetters == {"control_component_public_keys_payload_iter"}

Getters == PayloadGetters \cup FileGetters \cup IterGetters

\* the file a payload getter reads
FileOf(d, fct) ==
    CASE fct = "setup_component_public_keys_payload" -> d.setup_component_public_keys_payload
      [] fct = "election_event_context_payload" -> d.election_event_context_payload
      [] fct = "election_event_configuration" -> d.election_event_configuration

\* the payloads of the files of the control component group, with the numbers
\* of the files
control_component_public_keys_payload_iter(d) ==
    LET group == d.control_component_public_keys_payload_group
        numbers == get_numbers(group)
    IN  [k \in 1..Len(numbers) |->
            <<numbers[k], get_data(get_file_with_number(group, numbers[k]))>>]

\* the getters of SetupDirectory, by their name
SetupDirectory_get(d, fct) ==
    CASE fct = "setup_component_public_keys_payload" ->
             setup_component_public_keys_payload(d)
      [] fct = "election_event_context_payload" -> election_event_context_payload(d)
      [] fct = "election_event_configuration" -> election_event_configuration(d)
      [] fct = "setup_component_public_keys_payload_file" ->
             d.setup_component_public_keys_payload
      [] fct = "election_event_context_payload_file" -> d.election_event_context_payload
      [] fct = "election_event_configuration_file" -> d.election_event_configuration
      [] fct = "control_component_public_keys_payload_group" ->
             d.control_component_public_keys_payload_group
      [] fct = "control_component_public_keys_payload_iter" ->
             control_component_public_keys_payload_iter(d)

\* MockSetupDirectory::new: nothing is mocked
MockSetupDirectory_new ==
    [fct \in Getters |->
        IF fct \in IterGetters THEN [nr \in NodeIds |-> None] ELSE None]

\* an anyhow error with the errors it was made from
ErrFrom(m, source) == [ok |-> FALSE, err |-> m, source |-> source]

\* mock_payload!: the payload is cloned, of an error the message is kept
mock_payload(data) ==
    IF data.ok THEN Some(Ok(data.val)) ELSE Some(Err(data.err))

\* a getter that returns the payload of the directory where an error was mocked
wrap_payload_getter_without_errors(mock, real) ==
    IF mock # None /\ unwrap(mock).ok THEN Ok(unwrap(mock).val) ELSE real

\* wrap_payload_getter!
wrap_payload_getter(mock, real) ==
    IF mock # None
    THEN IF unwrap(mock).ok THEN Ok(unwrap(mock).val) ELSE Err(unwrap(mock).err)
    ELSE real

\* wrap_file_group_getter!
wrap_file_group_getter(mock, real) ==
    IF mock # None THEN unwrap(mock) ELSE real

\* wrap_payload_iter!: the payload mocked for the number of a file stands for
\* the payload of the file
wrap_payload_iter(mock, real) ==
    [k \in 1..Len(real) |->
        LET nr == real[k][1]
        IN  IF mock[nr] # None THEN <<nr, unwrap(mock[nr])>> ELSE real[k]]

\* the getters of MockSetupDirectory, by their name
MockSetupDirectory_get(m, d, fct) ==
    IF fct \in PayloadGetters THEN wrap_payload_getter(m[fct], SetupDirectory_get(d, fct))
    ELSE IF fct \in FileGetters
         THEN wrap_file_group_getter(m[fct], SetupDirectory_get(d, fct))
         ELSE wrap_payload_iter(m[fct], SetupDirectory_get(d, fct))

\* a payload with another content
Changed(payload) == [payload EXCEPT !.domain_errors = 1]

\* what the tests give to mock_*: another payload, or an error
MockData(fct) ==
    {Ok(Changed(unwrap(FileOf(PristineDirectory, fct).content))),
     ErrFrom("mocked error", <<"cause">>)}

MockIterData(nr) ==
    {Ok(Changed(unwrap(PristineDirectory.control_component_public_keys_payload_group[nr].content)))}

\* the file or the group at another location, where it is missing
MockFiles(fct) ==
    IF fct = "control_component_public_keys_payload_group"
    THEN {[j \in NodeIds |-> Faulty("missing")]}
    ELSE {Faulty("missing")}

\* the files that were changed on disk since the directory was made
ChangedFiles == {fct \in PayloadGetters : FileOf(dir, fct) # FileOf(PristineDirectory, fct)}

\* the calls made so far
Calls == Len(returned) + Len(mock_calls) + Cardinality(ChangedFiles)

\* no call was made on a mock
MockIdle ==
    /\ mocked = MockSetupDirectory_new
    /\ mock_calls = <<>>
    /\ returned = <<>>

\* the file system enumerates the files of the pristine group in ascending order
PristineListing == [n \in NodeIds |-> n]

ChecksIdle ==
    /\ dir = PristineDirectory
    /\ read_dir = PristineListing
    /\ chk = None

-----------------------------------------------------------------------------
(* The dataset directory given to the application (lib.rs) *)

\* what is at a path of the file system
PathKinds == {"absent", "file", "dir"}

\* Path::is_dir
is_dir(kind) == kind = "dir"

\* the datasets: below what is no directory there is nothing
Datasets ==
    {t \in [path : PathKinds, setup : PathKinds, tally : PathKinds] :
        ~is_dir(t.path) => t.setup = "absent" /\ t.tally = "absent"}

\* a complete tally dataset
PristineDataset == [path |-> "dir", setup |-> "dir", tally |-> "dir"]

\* a directory check that takes the setup directory for the whole dataset
is_directory_tally_without_setup(t) ==
    IF ~is_dir(t.path) THEN Err("Giveen directory does not exist")
    ELSE Ok(is_dir(t.tally))

\* is_directory_tally (lib.rs:39-52)
is_directory_tally(t) ==
    IF ~is_dir(t.path) THEN Err("Giveen directory does not exist")
    ELSE IF ~is_dir(t.setup) THEN Err("The setup directory does not exist")
         ELSE Ok(is_dir(t.tally))

\* check_verification_dir (lib.rs:54-66)
check_verification_dir(period, t) ==
    LET tally == is_directory_tally(t)
    IN  IF ~tally.ok THEN tally
        ELSE IF period = "Tally"
             THEN IF tally.val THEN Ok(<<>>) ELSE Err("The tally directory does not exist")
             ELSE Ok(<<>>)

-----------------------------------------------------------------------------
(* The static schemas (data_structures/xml/schema.rs) *)

SchemaKinds ==
    {"ech_0006", "ech_0007", "ech_0008", "ech_0010", "ech_0044", "ech_0058",
     "ech_0110", "ech_0155", "ech_0222", "decrypt", "config"}

\* a get_schema in which decrypt shares the cell of ech_0222
CellOf_decrypt_shared(kind) ==
    CASE kind = "ech_0006" -> "SCHEMA_CELL_ECH_0006"
      [] kind = "ech_0007" -> "SCHEMA_CELL_ECH_0007"
      [] kind = "ech_0008" -> "SCHEMA_CELL_ECH_0008"
      [] kind = "ech_0010" -> "SCHEMA_CELL_ECH_0010"
      [] kind = "ech_0044" -> "SCHEMA_CELL_ECH_0044"
      [] kind = "ech_0058" -> "SCHEMA_CELL_ECH_0058"
      [] kind = "ech_0110" -> "SCHEMA_CELL_ECH_0110"
      [] kind = "ech_0155" -> "SCHEMA_CELL_ECH_0155"
      [] kind = "ech_0222" -> "SCHEMA_CELL_ECH_0222"
      [] kind = "decrypt" -> "SCHEMA_CELL_ECH_0222"
      [] kind = "config" -> "SCHEMA_CELL_ECH_CONFIG"

\* get_schema (schema.rs:55-91): the cell matched with the kind
CellOf(kind) ==
    CASE kind = "ech_0006" -> "SCHEMA_CELL_ECH_0006"
      [] kind = "ech_0007" -> "SCHEMA_CELL_ECH_0007"
      [] kind = "ech_0008" -> "SCHEMA_CELL_ECH_0008"
      [] kind = "ech_0010" -> "SCHEMA_CELL_ECH_0010"
      [] kind = "ech_0044" -> "SCHEMA_CELL_ECH_0044"
      [] kind = "ech_0058" -> "SCHEMA_CELL_ECH_0058"
      [] kind = "ech_0110" -> "SCHEMA_CELL_ECH_0110"
      [] kind = "ech_0155" -> "SCHEMA_CELL_ECH_0155"
      [] kind = "ech_0222" -> "SCHEMA_CELL_ECH_0222"
      [] kind = "decrypt" -> "SCHEMA_CELL_ECH_DECRYPT"
      [] kind = "config" -> "SCHEMA_CELL_ECH_CONFIG"

\* get_schema (schema.rs:55-91): the resource the schema of the kind is made of
XsdOf(kind) ==
    CASE kind = "ech_0006" -> "XSD_ECH_0006"
      [] kind = "ech_0007" -> "XSD_ECH_0007"
      [] kind = "ech_0008" -> "XSD_ECH_0008"
      [] kind = "ech_0010" -> "XSD_ECH_0010"
      [] kind = "ech_0044" -> "XSD_ECH_0044"
      [] kind = "ech_0058" -> "XSD_ECH_0058"
      [] kind = "ech_0110" -> "XSD_ECH_0110"
      [] kind = "ech_0155" -> "XSD_ECH_0155"
      [] kind = "ech_0222" -> "XSD_ECH_0222"
      [] kind = "decrypt" -> "XSD_DECRYPT"
      [] kind = "config" -> "XSD_CONFIG"

\* the statics SCHEMA_CELL_* (schema.rs:13-23)
SchemaCells ==
    {"SCHEMA_CELL_ECH_0006", "SCHEMA_CELL_ECH_0007", "SCHEMA_CELL_ECH_0008",
     "SCHEMA_CELL_ECH_0010", "SCHEMA_CELL_ECH_0044", "SCHEMA_CELL_ECH_0058",
     "SCHEMA_CELL_ECH_0110", "SCHEMA_CELL_ECH_0155", "SCHEMA_CELL_ECH_0222",
     "SCHEMA_CELL_ECH_DECRYPT", "SCHEMA_CELL_ECH_CONFIG"}

\* OnceLock::new
OnceLock_new == [state |-> "empty", value |-> None]

\* Schema::new (schema.rs:139-141) of a resource that is a schema; instance
\* tells the objects built for one kind apart
Schema_new(kind, xsd, instance) ==
    [schema_kind |-> kind, xsd |-> xsd, instance |-> instance]

Threads == 1..MaxThreads

ThreadIdle == [pc |-> "idle", kind |-> "", built |-> None, got |-> None]

\* no thread has asked for a schema
SchemasIdle ==
    /\ cells = [c \in SchemaCells |-> OnceLock_new]
    /\ threads = [t \in Threads |-> ThreadIdle]
    /\ constructions = [k \in SchemaKinds |-> 0]

\* nothing was asked of the application
\* no VerificationDirectory is being created
VDirIdle ==
    /\ vdir_period = "Setup"
    /\ vdir = None
    /\ vdir_calls = <<>>

AppIdle ==
    /\ fs = PristineDataset
    /\ dir_checks = <<>>
    /\ SchemasIdle
    /\ VDirIdle

\* no file is looked at outside of a directory
FileIdle ==
    /\ file = Faulty("missing")
    /\ file_data = None

\* no payload is being looked at outside of a check
DataIdle ==
    /\ signed_payload = None
    /\ hashable = None
    /\ signature = None
    /\ MockIdle
    /\ FileIdle
    /\ AppIdle

SuiteInputs ==
    /\ Verification_new(<<>>)
    /\ ChecksIdle
    /\ DataIdle
    /\ \E period \in Periods, excl \in ExclusionLists : SuiteInit(period, excl)

SpecSuite == SuiteInputs /\ [][SuiteNext]_vars

\* the directory a check is about to be applied to
CheckInputs(check) ==
    /\ Verification_new(<<>>)
    /\ SuiteInit("Setup", <<>>)
    /\ DirectoryWithin(PristineDirectory, check, MaxDeviations)
    /\ read_dir = get_numbers(dir.control_component_public_keys_payload_group)
    /\ chk = None
    /\ DataIdle

\* a check function is applied to the directory
RunCheck(check, outcome) ==
    /\ chk = None
    /\ chk' = Some([check |-> check, outcome |-> outcome.outcome, events |-> outcome.events])
    /\ UNCHANGED <<dir, read_dir>>
    /\ UNCHANGED <<verifVars, suiteVars, dataVars, mockVars, fileVars, appVars, vdirVars>>

Run305 == RunCheck("305", fn_verification_305(dir))

Run0304 == RunCheck("03.04", fn_verification_0304(dir))

Run0401 == RunCheck("04.01", fn_0401_verify_setup_integrity(dir))

Run0303 == RunCheck("03.03", fn_verification_0303(dir))

Run0309 == RunCheck("03.09", fn_verification_0309(dir))

Run503 == RunCheck("503", fn_verification_503(dir))

\* the directory 01.01 is about to be applied to: some files missing, and the
\* control component group as the file system enumerates it
CheckInputs0101 ==
    /\ Verification_new(<<>>)
    /\ SuiteInit("Setup", <<>>)
    /\ read_dir \in Listings
    /\ DirectoryWithin(
           [PristineDirectory EXCEPT
               !.control_component_public_keys_payload_group = GroupOf(read_dir)],
           "01.01", MaxDeviations)
    /\ chk = None
    /\ DataIdle

Run0101 == RunCheck("01.01", fn_0101_verify_setup_completeness(dir, read_dir))

Spec305 == CheckInputs("305") /\ [][Run305]_vars

Spec0304 == CheckInputs("03.04") /\ [][Run0304]_vars

Spec0401 == CheckInputs("04.01") /\ [][Run0401]_vars

Spec0303 == CheckInputs("03.03") /\ [][Run0303]_vars

Spec0309 == CheckInputs("03.09") /\ [][Run0309]_vars

Spec0101 == CheckInputs0101 /\ [][Run0101]_vars

Spec503 == CheckInputs("503") /\ [][Run503]_vars

-----------------------------------------------------------------------------
(* The hashable projection of the signed payloads (data_structures/setup).
   A node of a HashableMessage keeps the name of the field it was made from,
   so that the place of every field in the projection can be told. *)

\* HashableMessage::from of a field that is a string, a number, a vector of
\* numbers, an encryption group, a proof or a vector of proofs
Leaf(field, value) == [field |-> field, leaf |-> TRUE, value |-> value, items |-> <<>>]

\* HashableMessage::from of a vector of HashableMessage
Composite(field, items) == [field |-> field, leaf |-> FALSE, value |-> 0, items |-> items]

\* control_component_public_keys_payload.rs:65-87
ControlComponentPublicKeys_hashable(value) ==
    <<Leaf("node_id", value.node_id),
      Leaf("ccrj_choice_return_codes_encryption_public_key",
           value.ccrj_choice_return_codes_encryption_public_key),
      Leaf("ccrj_schnorr_proofs", value.ccrj_schnorr_proofs),
      Leaf("ccmj_election_public_key", value.ccmj_election_public_key),
      Leaf("ccmj_schnorr_proofs", value.ccmj_schnorr_proofs)>>

\* control_component_public_keys_payload.rs:25-33
ControlComponentPublicKeysPayload_hashable(value) ==
    <<Leaf("encryption_group", value.encryption_group),
      Leaf("election_event_id", value.election_event_id),
      Composite("control_component_public_keys",
                ControlComponentPublicKeys_hashable(value.control_component_public_keys))>>

\* setup_component_public_keys_payload.rs:68-88
SetupComponentPublicKeys_hashable(value) ==
    LET nodes == value.combined_control_component_public_keys
    IN  <<Composite("combined_control_component_public_keys",
                    [i \in 1..Len(nodes) |->
                        Composite("", ControlComponentPublicKeys_hashable(nodes[i]))]),
          Leaf("electoral_board_public_key", value.electoral_board_public_key),
          Leaf("electoral_board_schnorr_proofs", value.electoral_board_schnorr_proofs),
          Leaf("election_public_key", value.election_public_key),
          Leaf("choice_return_codes_encryption_public_key",
               value.choice_return_codes_encryption_public_key)>>

\* setup_component_public_keys_payload.rs:28-35
SetupComponentPublicKeysPayload_hashable(value) ==
    <<Leaf("encryption_group", value.encryption_group),
      Composite("setup_component_public_keys",
                SetupComponentPublicKeys_hashable(value.setup_component_public_keys))>>

\* setup_component_tally_data_payload.rs:29-46
SetupComponentTallyDataPayload_hashable(value) ==
    <<Leaf("election_event_id", value.election_event_id),
      Leaf("verification_card_set_id", value.verification_card_set_id),
      Leaf("ballot_box_default_title", value.ballot_box_default_title),
      Leaf("encryption_group", value.encryption_group),
      Leaf("verification_card_ids", value.verification_card_ids),
      Leaf("verification_card_public_keys", value.verification_card_public_keys)>>

\* control_component_code_shares_payload.rs:66-78
ControlComponentCodeShare_hashable(value) ==
    <<Leaf("verification_card_id", value.verification_card_id),
      Leaf("voter_choice_return_code_generation_public_key",
           value.voter_choice_return_code_generation_public_key),
      Leaf("voter_vote_cast_return_code_generation_public_key",
           value.voter_vote_cast_return_code_generation_public_key),
      Leaf("exponentiated_encrypted_partial_choice_return_codes",
           value.exponentiated_encrypted_partial_choice_return_codes),
      Leaf("encrypted_partial_choice_return_code_exponentiation_proof",
           value.encrypted_partial_choice_return_code_exponentiation_proof),
      Leaf("exponentiated_encrypted_confirmation_key",
           value.exponentiated_encrypted_confirmation_key),
      Leaf("encrypted_confirmation_key_exponentiation_proof",
           value.encrypted_confirmation_key_exponentiation_proof)>>

\* control_component_code_shares_payload.rs:47-64
ControlComponentCodeSharesPayloadInner_hashable(value) ==
    LET shares == value.control_component_code_shares
    IN  <<Leaf("election_event_id", value.election_event_id),
          Leaf("verification_card_set_id", value.verification_card_set_id),
          Leaf("chunk_id", value.chunk_id),
          Leaf("encryption_group", value.encryption_group),
          Composite("control_component_code_shares",
                    [i \in 1..Len(shares) |->
                        Composite("", ControlComponentCodeShare_hashable(shares[i]))]),
          Leaf("node_id", value.node_id)>>

\* HashableMessage::from(&payload), by the type of the payload
HashableMessage_from(p) ==
    CASE p.type = "SetupComponentPublicKeysPayload" ->
             SetupComponentPublicKeysPayload_hashable(p.fields)
      [] p.type = "ControlComponentPublicKeysPayload" ->
             ControlComponentPublicKeysPayload_hashable(p.fields)
      [] p.type = "SetupComponentTallyDataPayload" ->
             SetupComponentTallyDataPayload_hashable(p.fields)
      [] p.type = "ControlComponentCodeSharesPayloadInner" ->
             ControlComponentCodeSharesPayloadInner_hashable(p.fields)

\* the fields of the records, in the order of their declaration
Fields(type) ==
    CASE type = "SetupComponentPublicKeysPayload" ->
             <<"encryption_group", "election_event_id", "setup_component_public_keys",
               "signature">>
      [] type = "SetupComponentPublicKeys" ->
             <<"combined_control_component_public_keys", "electoral_board_public_key",
               "electoral_board_schnorr_proofs", "election_public_key",
               "choice_return_codes_encryption_public_key">>
      [] type = "ControlComponentPublicKeysPayload" ->
             <<"encryption_group", "election_event_id", "control_component_public_keys",
               "signature">>
      [] type = "ControlComponentPublicKeys" ->
             <<"node_id", "ccrj_choice_return_codes_encryption_public_key",
               "ccrj_schnorr_proofs", "ccmj_election_public_key", "ccmj_schnorr_proofs">>
      [] type = "SetupComponentTallyDataPayload" ->
             <<"election_event_id", "verification_card_set_id", "ballot_box_default_title",
               "encryption_group", "verification_card_ids",
               "verification_card_public_keys", "signature">>
      [] type = "ControlComponentCodeSharesPayloadInner" ->
             <<"election_event_id", "verification_card_set_id", "chunk_id",
               "control_component_code_shares", "encryption_group", "node_id",
               "signature">>
      [] type = "ControlComponentCodeShare" ->
             <<"verification_card_id", "voter_choice_return_code_generation_public_key",
               "voter_vote_cast_return_code_generation_public_key",
               "exponentiated_encrypted_partial_choice_return_codes",
               "encrypted_partial_choice_return_code_exponentiation_proof",
               "exponentiated_encrypted_confirmation_key",
               "encrypted_confirmation_key_exponentiation_proof">>

\* the fields that hold a record, or a vector of records, with the type of
\* the record
RecordFields ==
    [setup_component_public_keys |-> "SetupComponentPublicKeys",
     control_component_public_keys |-> "ControlComponentPublicKeys"]

VectorFields ==
    [combined_control_component_public_keys |-> "ControlComponentPublicKeys",
     control_component_code_shares |-> "ControlComponentCodeShare"]

\* the values of a field that holds no record
FieldValues == {1, 2}

\* the records of a type without records inside, with one value in all fields
UniformRecordsOf(type) ==
    {[f \in {Fields(type)[i] : i \in 1..Len(Fields(type))} |-> v] : v \in FieldValues}

\* the records of a type over its first n fields, with every combination of
\* values of these fields
RECURSIVE RecordsOver(_, _)
RecordsOver(type, n) ==
    LET f == Fields(type)[n]
        values ==
            IF f \in DOMAIN RecordFields
            THEN RecordsOver(RecordFields[f], Len(Fields(RecordFields[f])))
            ELSE IF f \in DOMAIN VectorFields
                 THEN SeqsUpTo(UniformRecordsOf(VectorFields[f]), MaxItems)
                 ELSE FieldValues
    IN  IF n = 1 THEN {(f :> v) : v \in values}
        ELSE {r @@ (f :> v) : r \in RecordsOver(type, n - 1), v \in values}

RecordsOf(type) == RecordsOver(type, Len(Fields(type)))

PayloadTypes ==
    {"SetupComponentPublicKeysPayload", "ControlComponentPublicKeysPayload",
     "SetupComponentTallyDataPayload", "ControlComponentCodeSharesPayloadInner"}

\* a payload was decoded
HashableInputs ==
    /\ Verification_new(<<>>)
    /\ SuiteInit("Setup", <<>>)
    /\ ChecksIdle
    /\ \E type \in PayloadTypes :
           \E r \in RecordsOf(type) :
               signed_payload = Some([type |-> type, fields |-> r])
    /\ hashable = None
    /\ signature = None
    /\ MockIdle
    /\ FileIdle
    /\ AppIdle

\* the XML artifacts of the tally: the decryption result, which is hashed
\* from its file, and the eCH-0222 delivery, which has no field
XMLTypes == {"EVotingDecrypt", "ECH0222"}

XMLArtifacts ==
    {[type |-> "EVotingDecrypt", fields |-> [path |-> st]] :
        st \in {"valid", "missing", "invalid"}}
    \cup {[type |-> "ECH0222", fields |-> <<>>]}

\* todo!(): the call panics
todo == Aborted

\* HashableMessage::Hashed(hash) of the file of the artifact without its
\* signature element
Hashed(path) == <<Leaf("", "hash")>>

\* get_hashable(), by the type of the signed payload
get_hashable(p) ==
    CASE p.type \in PayloadTypes -> Ok(HashableMessage_from(p))
      [] p.type = "EVotingDecrypt" ->
             IF p.fields.path = "valid" THEN Ok(Hashed(p.fields.path))
             ELSE Err("try_hash")
      [] p.type = "ECH0222" -> todo

\* get_signature(), by the type of the signed payload: the bytes of the
\* signature field of the JSON payloads
get_signature(p) ==
    CASE p.type \in PayloadTypes -> Ok(p.fields.signature)
      [] p.type = "EVotingDecrypt" -> todo
      [] p.type = "ECH0222" -> todo

\* get_hashable(): the HashableMessage of the payload is computed
GetHashable ==
    /\ signed_payload # None
    /\ hashable = None
    /\ hashable' = Some(get_hashable(unwrap(signed_payload)))
    /\ UNCHANGED <<signed_payload, signature>>
    /\ UNCHANGED <<verifVars, suiteVars, checkVars, mockVars, fileVars, appVars, vdirVars>>

SpecHashable == HashableInputs /\ [][GetHashable]_vars

\* a signed payload or a signed XML artifact was decoded
SignedInputs ==
    /\ Verification_new(<<>>)
    /\ SuiteInit("Setup", <<>>)
    /\ ChecksIdle
    /\ \/ \E type \in PayloadTypes :
              \E r \in RecordsOf(type) :
                  signed_payload = Some([type |-> type, fields |-> r])
       \/ \E x \in XMLArtifacts : signed_payload = Some(x)
    /\ hashable = None
    /\ signature = None
    /\ MockIdle
    /\ FileIdle
    /\ AppIdle

\* get_signature(): the bytes of the signature of the payload are asked for
GetSignature ==
    /\ signed_payload # None
    /\ signature = None
    /\ signature' = Some(get_signature(unwrap(signed_payload)))
    /\ UNCHANGED <<signed_payload, hashable>>
    /\ UNCHANGED <<verifVars, suiteVars, checkVars, mockVars, fileVars, appVars, vdirVars>>

SignedNext == GetHashable \/ GetSignature

SpecSigned == SignedInputs /\ [][SignedNext]_vars

-----------------------------------------------------------------------------
(* Calls on a setup directory and on its mock *)

DirectoryInputs ==
    /\ Verification_new(<<>>)
    /\ SuiteInit("Setup", <<>>)
    /\ ChecksIdle
    /\ DataIdle

\* a file of the directory disappears from the disk
ChangeFile ==
    /\ Calls < MaxCalls
    /\ \E fct \in PayloadGetters :
           /\ fct \notin ChangedFiles
           /\ dir' = CASE fct = "setup_component_public_keys_payload" ->
                            [dir EXCEPT !.setup_component_public_keys_payload =
                                            Faulty("missing")]
                       [] fct = "election_event_context_payload" ->
                            [dir EXCEPT !.election_event_context_payload =
                                            Faulty("missing")]
                       [] fct = "election_event_configuration" ->
                            [dir EXCEPT !.election_event_configuration =
                                            Faulty("missing")]
    /\ UNCHANGED <<read_dir, chk>>
    /\ UNCHANGED <<verifVars, suiteVars, dataVars, mockVars, fileVars, appVars, vdirVars>>

\* a payload getter of the directory is called
CallGetter ==
    /\ Calls < MaxCalls
    /\ \E fct \in PayloadGetters :
           returned' = Append(returned,
                              [on |-> "SetupDirectory", fct |-> fct,
                               after |-> Len(mock_calls),
                               result |-> SetupDirectory_get(dir, fct),
                               real |-> SetupDirectory_get(dir, fct)])
    /\ UNCHANGED <<mocked, mock_calls>>
    /\ UNCHANGED <<verifVars, suiteVars, checkVars, dataVars, fileVars, appVars, vdirVars>>

\* mock_<payload>(data)
MockPayload ==
    /\ Calls < MaxCalls
    /\ \E fct \in PayloadGetters :
           \E data \in MockData(fct) :
               /\ mocked' = [mocked EXCEPT ![fct] = mock_payload(data)]
               /\ mock_calls' = Append(mock_calls, [fct |-> fct, nr |-> 0, data |-> data])
    /\ UNCHANGED returned
    /\ UNCHANGED <<verifVars, suiteVars, checkVars, dataVars, fileVars, appVars, vdirVars>>

\* mock_<file>(data), mock_<group>(data)
MockFile ==
    /\ Calls < MaxCalls
    /\ \E fct \in FileGetters :
           \E data \in MockFiles(fct) :
               /\ mocked' = [mocked EXCEPT ![fct] = Some(data)]
               /\ mock_calls' = Append(mock_calls, [fct |-> fct, nr |-> 0, data |-> data])
    /\ UNCHANGED returned
    /\ UNCHANGED <<verifVars, suiteVars, checkVars, dataVars, fileVars, appVars, vdirVars>>

\* mock_control_component_public_keys_payloads(nr, data)
MockPayloadIter ==
    /\ Calls < MaxCalls
    /\ \E fct \in IterGetters :
           \E nr \in NodeIds :
               \E data \in MockIterData(nr) :
                   /\ mocked' = [mocked EXCEPT ![fct][nr] = mock_payload(data)]
                   /\ mock_calls' = Append(mock_calls,
                                           [fct |-> fct, nr |-> nr, data |-> data])
    /\ UNCHANGED returned
    /\ UNCHANGED <<verifVars, suiteVars, checkVars, dataVars, fileVars, appVars, vdirVars>>

\* a getter of the mock is called
CallMockGetter ==
    /\ Calls < MaxCalls
    /\ \E fct \in Getters :
           returned' = Append(returned,
                              [on |-> "MockSetupDirectory", fct |-> fct,
                               after |-> Len(mock_calls),
                               result |-> MockSetupDirectory_get(mocked, dir, fct),
                               real |-> SetupDirectory_get(dir, fct)])
    /\ UNCHANGED <<mocked, mock_calls>>
    /\ UNCHANGED <<verifVars, suiteVars, checkVars, dataVars, fileVars, appVars, vdirVars>>

DirectoryNext ==
    \/ ChangeFile
    \/ CallGetter
    \/ MockPayload
    \/ MockFile
    \/ MockPayloadIter
    \/ CallMockGetter

SpecDirectory == DirectoryInputs /\ [][DirectoryNext]_vars

-----------------------------------------------------------------------------
(* File::get_data on a file of any path, state and content *)

\* the files: at a path that is a Unicode string or not, missing, unreadable,
\* not decodable, or holding a payload of a type
Files ==
    {[f EXCEPT !.utf8 = u] :
        f \in {Faulty(fault) : fault \in FileFaults}
              \cup UNION {{Valid([type |-> type, fields |-> r]) : r \in RecordsOf(type)} :
                             type \in PayloadTypes},
        u \in BOOLEAN}

FileInputs ==
    /\ Verification_new(<<>>)
    /\ SuiteInit("Setup", <<>>)
    /\ ChecksIdle
    /\ signed_payload = None
    /\ hashable = None
    /\ signature = None
    /\ MockIdle
    /\ file \in Files
    /\ file_data = None
    /\ AppIdle

\* file.get_data()
GetData ==
    /\ file_data = None
    /\ file_data' = Some(get_data(file))
    /\ UNCHANGED file
    /\ UNCHANGED <<verifVars, suiteVars, checkVars, dataVars, mockVars, appVars, vdirVars>>

SpecFile == FileInputs /\ [][GetData]_vars

-----------------------------------------------------------------------------
(* The checks of the dataset directory at the start of the application *)

DatasetInputs ==
    /\ Verification_new(<<>>)
    /\ SuiteInit("Setup", <<>>)
    /\ ChecksIdle
    /\ signed_payload = None
    /\ hashable = None
    /\ signature = None
    /\ MockIdle
    /\ FileIdle
    /\ fs \in Datasets
    /\ dir_checks = <<>>
    /\ SchemasIdle
    /\ VDirIdle

\* is_directory_tally(path)
IsDirectoryTally ==
    /\ Len(dir_checks) < MaxCalls
    /\ dir_checks' = Append(dir_checks,
                            [fct |-> "is_directory_tally", period |-> "",
                             result |-> is_directory_tally(fs)])
    /\ UNCHANGED <<fs, cells, threads, constructions>>
    /\ UNCHANGED <<verifVars, suiteVars, checkVars, dataVars, mockVars, fileVars, vdirVars>>

\* check_verification_dir(period, path)
CheckVerificationDir ==
    /\ Len(dir_checks) < MaxCalls
    /\ \E period \in Periods :
           dir_checks' = Append(dir_checks,
                                [fct |-> "check_verification_dir", period |-> period,
                                 result |-> check_verification_dir(period, fs)])
    /\ UNCHANGED <<fs, cells, threads, constructions>>
    /\ UNCHANGED <<verifVars, suiteVars, checkVars, dataVars, mockVars, fileVars, vdirVars>>

DatasetNext ==
    \/ IsDirectoryTally
    \/ CheckVerificationDir

SpecDataset == DatasetInputs /\ [][DatasetNext]_vars

-----------------------------------------------------------------------------
(* VerificationDirectory (file_structure/mod.rs:108-156) *)

\* SetupDirectory::new(location): the view on the setup directory of the dataset
SetupDirectory_new(location) == [view |-> "setup", dataset |-> location]

\* TallyDirectory::new(location): the view on the tally directory of the dataset
TallyDirectory_new(location) == [view |-> "tally", dataset |-> location]

\* mutant: the tally view is created for no period
VerificationDirectory_new_without_tally(period, location) ==
    [setup |-> SetupDirectory_new(location), tally |-> None]

\* VerificationDirectory::new(period, location)
VerificationDirectory_new(period, location) ==
    IF period = "Setup"
    THEN [setup |-> SetupDirectory_new(location), tally |-> None]
    ELSE [setup |-> SetupDirectory_new(location),
          tally |-> Some(TallyDirectory_new(location))]

is_setup(d) == d.tally = None

is_tally(d) == ~is_setup(d)

unwrap_setup(d) == d.setup

\* panics on a directory without tally view
unwrap_tally(d) == IF d.tally # None THEN unwrap(d.tally) ELSE Aborted

\* the application was started for a period on a dataset
VDirInputs ==
    /\ Verification_new(<<>>)
    /\ SuiteInit("Setup", <<>>)
    /\ ChecksIdle
    /\ signed_payload = None
    /\ hashable = None
    /\ signature = None
    /\ MockIdle
    /\ FileIdle
    /\ fs \in Datasets
    /\ dir_checks = <<>>
    /\ SchemasIdle
    /\ vdir_period \in Periods
    /\ vdir = None
    /\ vdir_calls = <<>>

NewVerificationDirectory ==
    /\ vdir = None
    /\ vdir' = Some(VerificationDirectory_new(vdir_period, fs))
    /\ UNCHANGED <<vdir_period, vdir_calls>>
    /\ UNCHANGED <<verifVars, suiteVars, checkVars, dataVars, mockVars, fileVars, appVars>>

\* a call on the directory returns, or panics
VDirCall(fct, returned_value) ==
    /\ vdir # None
    /\ Len(vdir_calls) < MaxCalls
    /\ vdir_calls' = Append(vdir_calls, [fct |-> fct, result |-> returned_value])
    /\ UNCHANGED <<vdir_period, vdir>>
    /\ UNCHANGED <<verifVars, suiteVars, checkVars, dataVars, mockVars, fileVars, appVars>>

IsSetup == VDirCall("is_setup", is_setup(unwrap(vdir)))

IsTally == VDirCall("is_tally", is_tally(unwrap(vdir)))

UnwrapSetup == VDirCall("unwrap_setup", unwrap_setup(unwrap(vdir)))

UnwrapTally == VDirCall("unwrap_tally", unwrap_tally(unwrap(vdir)))

VDirNext ==
    \/ NewVerificationDirectory
    \/ IsSetup
    \/ IsTally
    \/ UnwrapSetup
    \/ UnwrapTally

SpecVDir == VDirInputs /\ [][VDirNext]_vars

-----------------------------------------------------------------------------
(* Threads that call SchemaKind::get_schema *)

SchemaInputs ==
    /\ Verification_new(<<>>)
    /\ SuiteInit("Setup", <<>>)
    /\ ChecksIdle
    /\ DataIdle

\* a thread calls kind.get_schema()
CallGetSchema(t) ==
    /\ threads[t].pc = "idle"
    /\ \E kind \in SchemaKinds :
           threads' = [threads EXCEPT ![t].pc = "get_or_init", ![t].kind = kind]
    /\ UNCHANGED <<cells, constructions>>

\* get_or_init on a cell that is set: the value of the cell is returned
GetOrInitSet(t) ==
    /\ threads[t].pc = "get_or_init"
    /\ cells[CellOf(threads[t].kind)].state = "set"
    /\ threads' = [threads EXCEPT ![t].pc = "returned",
                                  ![t].got = cells[CellOf(threads[t].kind)].value]
    /\ UNCHANGED <<cells, constructions>>

\* get_or_init on an empty cell: the thread is the one that initializes; the
\* threads that find the cell being initialized wait
GetOrInitEmpty(t) ==
    /\ threads[t].pc = "get_or_init"
    /\ cells[CellOf(threads[t].kind)].state = "empty"
    /\ cells' = [cells EXCEPT ![CellOf(threads[t].kind)].state = "initializing"]
    /\ threads' = [threads EXCEPT ![t].pc = "init"]
    /\ UNCHANGED constructions

\* the closure: Schema::new(self, resources::XSD_*)
SchemaNew(t) ==
    /\ threads[t].pc = "init"
    /\ LET kind == threads[t].kind
       IN  /\ constructions' = [constructions EXCEPT ![kind] = @ + 1]
           /\ threads' = [threads EXCEPT
                              ![t].pc = "built",
                              ![t].built = Some(Schema_new(kind, XsdOf(kind),
                                                           constructions[kind] + 1))]
    /\ UNCHANGED cells

\* get_or_init: the value built is stored in the cell and returned
Publish(t) ==
    /\ threads[t].pc = "built"
    /\ cells' = [cells EXCEPT ![CellOf(threads[t].kind)] =
                                  [state |-> "set", value |-> threads[t].built]]
    /\ threads' = [threads EXCEPT ![t].pc = "returned", ![t].got = threads[t].built]
    /\ UNCHANGED constructions

SchemaNext ==
    /\ \E t \in Threads :
           \/ CallGetSchema(t)
           \/ GetOrInitSet(t)
           \/ GetOrInitEmpty(t)
           \/ SchemaNew(t)
           \/ Publish(t)
    /\ UNCHANGED <<fs, dir_checks>>
    /\ UNCHANGED <<verifVars, suiteVars, checkVars, dataVars, mockVars, fileVars, vdirVars>>

SpecSchema == SchemaInputs /\ [][SchemaNext]_vars

Init ==
    /\ \E f \in CheckFunctions : Verification_new(f)
    /\ SuiteInit("Setup", <<>>)
    /\ ChecksIdle
    /\ DataIdle

Next ==
    \/ RunStart
    \/ RunPush
    \/ RunFinish
    \/ RunClockPanic

Spec == Init /\ [][Next]_vars

\* run() is one sequential function call: a check function that can push its
\* next event pushes it, and once it has returned, elapsed() is evaluated
RunFairness == WF_vars(RunPush) /\ WF_vars(RunFinish \/ RunClockPanic)

SpecRun == Init /\ [][Next]_vars /\ RunFairness

-----------------------------------------------------------------------------
(* Claims about the life cycle of a Verification, checked under Spec *)

\* the classifications a Verification reports through is_ok / has_errors / has_failures
Classification ==
    {c \in {"Ok", "HasErrors", "HasFailures"} :
        \/ c = "Ok" /\ Verification_is_ok = Some(TRUE)
        \/ c = "HasErrors" /\ Verification_has_errors = Some(TRUE)
        \/ c = "HasFailures" /\ Verification_has_failures = Some(TRUE)}

\* C1 as stated: a finished verification reports exactly one classification:
\* HasErrors when an error was pushed, else HasFailures when a failure was
\* pushed, else Ok.
C1_ExactlyOneClassification ==
    status = "Finished" =>
        Classification = {IF pushed.error > 0 THEN "HasErrors"
                          ELSE IF pushed.failure > 0 THEN "HasFailures"
                          ELSE "Ok"}

\* C1 as amended: a finished verification reports Ok exactly when no event was
\* pushed, HasErrors exactly when an error was pushed and HasFailures exactly
\* when a failure was pushed, whether or not an error was pushed too; so a
\* check that pushed both is reported with both HasErrors and HasFailures.
C1_Classification ==
    status = "Finished" =>
        Classification =
            (IF pushed.error > 0 THEN {"HasErrors"} ELSE {})
            \cup (IF pushed.failure > 0 THEN {"HasFailures"} ELSE {})
            \cup (IF pushed.error = 0 /\ pushed.failure = 0 THEN {"Ok"} ELSE {})

C1_Witness ==
    /\ status = "Finished"
    /\ pushed.error > 0
    /\ pushed.failure > 0
    /\ Classification = {"HasErrors", "HasFailures"}

\* C2: once run() has returned, has_errors() is Some(true) exactly when an
\* error was pushed, has_failures() is Some(true) exactly when a failure was
\* pushed, is_ok() is Some(true) exactly when neither was, and errors() and
\* failures() are as long as the numbers of errors and failures the check
\* function pushed into this Verification.
C2_QueriesAfterRun ==
    (pc = "idle" /\ runs > 0) =>
        /\ Verification_has_errors = Some(pushed.error > 0)
        /\ Verification_has_failures = Some(pushed.failure > 0)
        /\ Verification_is_ok = Some(pushed.error = 0 /\ pushed.failure = 0)
        /\ Len(Verification_errors) = pushed.error
        /\ Len(Verification_failures) = pushed.failure

\* the test run_error: two errors and one failure
C2_Witness ==
    /\ pc = "idle"
    /\ runs = 1
    /\ pushed = [error |-> 2, failure |-> 1]
    /\ Verification_has_errors = Some(TRUE)
    /\ Verification_has_failures = Some(TRUE)
    /\ Verification_is_ok = Some(FALSE)

\* C3 as stated: the status only ever moves Stopped -> Running -> Finished.
C3_StatusTransitions ==
    [][status' # status =>
         <<status, status'>> \in {<<"Stopped", "Running">>, <<"Running", "Finished">>}]_vars

\* the messages of the events of one kind, in the order the check pushes them
RECURSIVE MsgsOf(_, _)
MsgsOf(f, kind) ==
    IF f = <<>> THEN <<>>
    ELSE IF Head(f).kind = kind THEN <<Head(f).msg>> \o MsgsOf(Tail(f), kind)
         ELSE MsgsOf(Tail(f), kind)

\* C4 as stated: whenever run() has returned, on the first call or on a later
\* one, the errors and failures are those of a single run of the check.
C4_RerunYieldsSameEvents ==
    (pc = "idle" /\ runs > 0) =>
        /\ Verification_errors = MsgsOf(verification_fn, "error")
        /\ Verification_failures = MsgsOf(verification_fn, "failure")

-----------------------------------------------------------------------------
(* Claims about VerificationSuite, checked under SpecSuite *)

Range(v) == {v[i] : i \in 1..Len(v)}

\* the implemented checks of a period, by id
Implemented(period) ==
    IF period = "Setup" THEN Range(get_verifications_setup) ELSE Range(get_verifications_tally)

\* the elements of v that are in S, in the order of v
RECURSIVE Restrict(_, _)
Restrict(v, S) ==
    IF v = <<>> THEN <<>>
    ELSE IF Head(v) \in S THEN <<Head(v)>> \o Restrict(Tail(v), S)
         ELSE Restrict(Tail(v), S)

IsAscending(v) == \A i \in 1..(Len(v) - 1) : ~StrLess(v[i + 1], v[i])

\* C5: the checks of a suite are exactly the implemented checks of its period
\* whose id is not in the exclusion list, each once; and the suite is the one
\* built from the exclusion list without its unknown ids.
C5_ExclusionSoundness ==
    suite # None =>
        LET s == unwrap(suite)
            known == Restrict(suite_args.exclusion, Implemented(suite_args.period))
        IN  /\ s.period = suite_args.period
            /\ Range(s.list) = Implemented(suite_args.period) \ Range(suite_args.exclusion)
            /\ Cardinality(Range(s.list)) = len(s)
            /\ s = VerificationSuite_new(suite_args.period, known)

\* an exclusion list with two implemented ids and one unknown id
C5_Witness ==
    /\ suite # None
    /\ suite_args.period = "Setup"
    /\ suite_args.exclusion = <<Id(2, 1), toto, Id(5, 1)>>
    /\ len(unwrap(suite)) = Cardinality(Implemented("Setup")) - 2
    /\ ~contains(unwrap(suite).list, Id(2, 1))
    /\ ~contains(unwrap(suite).list, Id(5, 1))

\* C6: exclusion() is the given exclusion list restricted to the ids of the
\* implemented checks of the period, in the given order; no unknown id is in
\* it, and it is empty when the given list holds unknown ids only.
C6_ExclusionReported ==
    suite # None =>
        LET given == suite_args.exclusion
            impl == Implemented(suite_args.period)
            reported == VerificationSuite_exclusion(unwrap(suite))
        IN  /\ reported = Restrict(given, impl)
            /\ Range(reported) \subseteq impl
            /\ (Range(given) \cap impl = {}) => reported = <<>>

\* test_with_exclusion: ["02.01", "05.01", "toto"] is reported as ["02.01", "05.01"]
C6_Witness ==
    /\ suite # None
    /\ suite_args.period = "Setup"
    /\ suite_args.exclusion = <<Id(2, 1), Id(5, 1), toto>>
    /\ VerificationSuite_exclusion(unwrap(suite)) = <<Id(2, 1), Id(5, 1)>>
    /\ len_excluded(unwrap(suite)) = Len(suite_args.exclusion) - 1

\* C7: get_not_implemented_verifications_id(period) is ascending and holds
\* exactly the metadata ids of the period that are absent from the suite built
\* with an empty exclusion list; it is disjoint from collect_id() of that
\* suite, and the two together cover every metadata id of the period.
C7_NotImplemented ==
    not_implemented # None =>
        LET r == unwrap(not_implemented)
            meta == Range(id_list(r.period, r.order))
            built == collect_id(VerificationSuite_new(r.period, <<>>))
        IN  /\ IsAscending(r.ids)
            /\ Range(r.ids) = meta \ Range(built)
            /\ Cardinality(Range(r.ids)) = Len(r.ids)
            /\ Range(r.ids) \cap Range(built) = {}
            /\ meta \subseteq Range(r.ids) \cup Range(built)

\* the metadata table lists its ids in descending order and the result is
\* MISSING_SETUP_TESTS
C7_Witness ==
    /\ not_implemented # None
    /\ unwrap(not_implemented).period = "Setup"
    /\ unwrap(not_implemented).order = "descending"
    /\ unwrap(not_implemented).ids = MISSING_SETUP_TESTS

-----------------------------------------------------------------------------
(* Claims about the check functions *)

HasEvent(kind) ==
    \E i \in 1..Len(unwrap(chk).events) : unwrap(chk).events[i].kind = kind

\* a file that is there and cannot be read or parsed
Unloadable(f) == f.state \in {"unreadable", "invalid"}

\* C8 as stated: whatever the directory holds, a check function returns
\* normally, and when a payload it needs could not be loaded it has pushed an
\* error. Checked on VerifyChoiceReturnCodesPublicKeyConsistency under Spec305.
C8_ChecksNeverPanic ==
    chk # None =>
        /\ unwrap(chk).outcome = "returned"
        /\ (\/ ~encryption_parameters_payload(dir).ok
            \/ ~setup_component_public_keys_payload(dir).ok) => HasEvent("error")

\* the payloads 04.01 loads, none of which has a domain error
NoDomainError0401 ==
    LET Clean(f) == f.state = "valid" => f.content[1].domain_errors = 0
        CleanShares(f) ==
            f.state = "valid" =>
                \A j \in 1..Len(f.content[1]) : f.content[1][j].domain_errors = 0
    IN  /\ Clean(dir.election_event_context_payload)
        /\ Clean(dir.setup_component_public_keys_payload)
        /\ Clean(dir.election_event_configuration)
        /\ \A j \in NodeIds : Clean(dir.control_component_public_keys_payload_group[j])
        /\ \A v \in 1..Len(dir.vcs_directories) :
               LET vcs == dir.vcs_directories[v]
               IN  /\ Clean(vcs.setup_component_tally_data_payload)
                   /\ \A i \in 1..Len(vcs.setup_component_verification_data_payload_group) :
                          Clean(vcs.setup_component_verification_data_payload_group[i])
                   /\ \A i \in 1..Len(vcs.control_component_code_shares_payload_group) :
                          CleanShares(vcs.control_component_code_shares_payload_group[i])

\* some payload 04.01 loads is there and cannot be read or parsed
SomeUnloadable0401 ==
    \/ Unloadable(dir.election_event_context_payload)
    \/ Unloadable(dir.setup_component_public_keys_payload)
    \/ Unloadable(dir.election_event_configuration)
    \/ \E j \in NodeIds : Unloadable(dir.control_component_public_keys_payload_group[j])
    \/ \E v \in 1..Len(dir.vcs_directories) :
           LET vcs == dir.vcs_directories[v]
           IN  \/ Unloadable(vcs.setup_component_tally_data_payload)
               \/ \E i \in 1..Len(vcs.setup_component_verification_data_payload_group) :
                      Unloadable(vcs.setup_component_verification_data_payload_group[i])
               \/ \E i \in 1..Len(vcs.control_component_code_shares_payload_group) :
                      Unloadable(vcs.control_component_code_shares_payload_group[i])

\* C9 as stated, for 04.01: a payload that cannot be read or parsed gives an
\* error, and a failure is pushed only when a loaded payload is not
\* conformant. Checked under Spec0401.
C9_UnreadableIsErrorNotFailure ==
    chk # None =>
        /\ SomeUnloadable0401 => HasEvent("error")
        /\ NoDomainError0401 => ~HasEvent("failure")

\* a failure of 03.04 about control component j
HasFailureAboutNode(j) ==
    \E i \in 1..Len(unwrap(chk).events) :
        /\ unwrap(chk).events[i].kind = "failure"
        /\ unwrap(chk).events[i].msg[2] = ToString(j)

\* C10 as stated: 03.04 pushes a failure for a control component exactly when
\* its CCM election public key in the setup component's aggregate differs from
\* the one in the component's own payload file. Checked under Spec0304.
C10_CcmKeysCompared ==
    (chk # None /\ setup_component_public_keys_payload(dir).ok) =>
        LET nodes == setup_component_public_keys_payload(dir).val
                         .setup_component_public_keys.combined_control_component_public_keys
        IN  \A j \in NodeIds :
                LET data == get_data(dir.control_component_public_keys_payload_group[j])
                IN  data.ok =>
                        (HasFailureAboutNode(j)
                         <=> nodes[j].ccmj_election_public_key
                                 # data.val.control_component_public_keys
                                       .ccmj_election_public_key)

\* the events of a check whose message is about control component j: a
\* failure carries the node id, an error the name of the node's file
EventsAboutNode(j, kind) ==
    {i \in 1..Len(unwrap(chk).events) :
        /\ unwrap(chk).events[i].kind = kind
        /\ unwrap(chk).events[i].msg[Len(unwrap(chk).events[i].msg)] = ToString(j)}

\* C11: when the setup component's aggregate loads, 03.03 pushes for each of
\* its nodes exactly one error and no failure if the node's own file cannot be
\* loaded, exactly one failure and no error if the file loads and its CCR key
\* vector differs from the aggregate's in length or in an element, and no
\* event if the two vectors are equal; every node is handled, whatever
\* happened at the nodes before it. Checked under Spec0303.
C11_CcrKeysCompared ==
    (chk # None /\ setup_component_public_keys_payload(dir).ok) =>
        LET nodes == setup_component_public_keys_payload(dir).val
                         .setup_component_public_keys.combined_control_component_public_keys
        IN  /\ unwrap(chk).outcome = "returned"
            /\ \A j \in NodeIds :
                LET data == get_data(dir.control_component_public_keys_payload_group[j])
                    errors == Cardinality(EventsAboutNode(j, "error"))
                    failures == Cardinality(EventsAboutNode(j, "failure"))
                IN  IF ~data.ok THEN errors = 1 /\ failures = 0
                    ELSE IF nodes[j].ccrj_choice_return_codes_encryption_public_key
                              # data.val.control_component_public_keys
                                    .ccrj_choice_return_codes_encryption_public_key
                    THEN errors = 0 /\ failures = 1
                    ELSE errors = 0 /\ failures = 0

\* the file of node 1 cannot be loaded and node 2 has, in its file, a CCR key
\* of the same length with another element: one error, then one failure
C11_Witness ==
    /\ chk # None
    /\ setup_component_public_keys_payload(dir).ok
    /\ ~get_data(dir.control_component_public_keys_payload_group[1]).ok
    /\ get_data(dir.control_component_public_keys_payload_group[2]).ok
    /\ LET a == setup_component_public_keys_payload(dir).val.setup_component_public_keys
                    .combined_control_component_public_keys[2]
                    .ccrj_choice_return_codes_encryption_public_key
           b == get_data(dir.control_component_public_keys_payload_group[2]).val
                    .control_component_public_keys
                    .ccrj_choice_return_codes_encryption_public_key
       IN  Len(a) = Len(b) /\ a # b
    /\ Cardinality(EventsAboutNode(1, "error")) = 1
    /\ Cardinality(EventsAboutNode(2, "failure")) = 1
    /\ Len(unwrap(chk).events) = 2

\* the failures of the combined-key check about position i (counted from 1;
\* the message carries the index counted from 0)
FailuresAtPosition(i) ==
    {k \in 1..Len(unwrap(chk).events) :
        /\ unwrap(chk).events[k].kind = "failure"
        /\ unwrap(chk).events[k].msg[2] = ToString(i - 1)}

\* the combined-key law at position i: every node has a CCR key at i and the
\* combined key at i is their product modulo p
CombinedKeyLaw(d, i) ==
    LET keys == setup_component_public_keys_payload(d).val.setup_component_public_keys
        nodes == keys.combined_control_component_public_keys
        eg_p == encryption_parameters_payload(d).val.encryption_group.p
    IN  /\ \A j \in 1..Len(nodes) :
               i <= Len(nodes[j].ccrj_choice_return_codes_encryption_public_key)
        /\ keys.choice_return_codes_encryption_public_key[i] = Product(nodes, i) % eg_p

\* C12 as stated: when both payloads load, the combined-key check pushes no
\* error, and for every position i of the combined key exactly one failure
\* if the key at i is not the product modulo p of the nodes' CCR keys at i,
\* and none if it is. Checked under Spec305.
C12_CombinedKeyProduct ==
    (/\ chk # None
     /\ encryption_parameters_payload(dir).ok
     /\ setup_component_public_keys_payload(dir).ok) =>
        LET setup_ccr == setup_component_public_keys_payload(dir).val
                             .setup_component_public_keys
                             .choice_return_codes_encryption_public_key
        IN  /\ ~HasEvent("error")
            /\ \A i \in 1..Len(setup_ccr) :
                   Cardinality(FailuresAtPosition(i))
                       = IF CombinedKeyLaw(dir, i) THEN 0 ELSE 1

\* the same statement on the directories in which every node has a CCR key at
\* every position of the combined key: there it holds
C12_ProductWhereDefined ==
    (/\ chk # None
     /\ encryption_parameters_payload(dir).ok
     /\ setup_component_public_keys_payload(dir).ok
     /\ ~IndexPanics(setup_component_public_keys_payload(dir).val
                         .setup_component_public_keys
                         .combined_control_component_public_keys,
                     setup_component_public_keys_payload(dir).val
                         .setup_component_public_keys
                         .choice_return_codes_encryption_public_key)) =>
        LET setup_ccr == setup_component_public_keys_payload(dir).val
                             .setup_component_public_keys
                             .choice_return_codes_encryption_public_key
        IN  /\ unwrap(chk).outcome = "returned"
            /\ ~HasEvent("error")
            /\ \A i \in 1..Len(setup_ccr) :
                   Cardinality(FailuresAtPosition(i))
                       = IF CombinedKeyLaw(dir, i) THEN 0 ELSE 1

\* the payload of file f loads and carries the election event id
CarriesId(f, id) == get_data(f).ok /\ get_data(f).val.election_event_id = id

\* the code shares of file f load and every chunk carries the election event id
SharesCarryId(f, id) ==
    /\ get_data(f).ok
    /\ \A c \in 1..Len(get_data(f).val) : get_data(f).val[c].election_event_id = id

\* every payload of the directory loads and, apart from the tally data of
\* the VCS directories, carries the election event id
AllButTallyDataCarryId(d, id) ==
    /\ encryption_parameters_payload(d).ok
    /\ election_event_configuration(d).ok
    /\ CarriesId(d.election_event_context_payload, id)
    /\ CarriesId(d.setup_component_public_keys_payload, id)
    /\ \A j \in NodeIds : CarriesId(d.control_component_public_keys_payload_group[j], id)
    /\ \A v \in 1..Len(d.vcs_directories) :
           LET vcs == d.vcs_directories[v]
           IN  /\ setup_component_tally_data_payload(vcs).ok
               /\ \A i \in 1..Len(vcs.control_component_code_shares_payload_group) :
                      SharesCarryId(vcs.control_component_code_shares_payload_group[i], id)
               /\ \A i \in 1..Len(vcs.setup_component_verification_data_payload_group) :
                      CarriesId(vcs.setup_component_verification_data_payload_group[i], id)

\* the VCS directories whose tally data carry another id than the context
VcsWithOtherId(d) ==
    {v \in 1..Len(d.vcs_directories) :
        setup_component_tally_data_payload(d.vcs_directories[v]).val.election_event_id
            # election_event_context_payload(d).val.election_event_id}

\* C13: if every payload loads and carries the election event id of the
\* context payload, except the setupComponentTallyDataPayload of exactly one
\* VCS directory, which carries another id, then 03.09 returns exactly one
\* event, a failure, whose message names that VCS directory. Checked under
\* Spec0309.
C13_OneFailureNamingVcs ==
    (/\ chk # None
     /\ election_event_context_payload(dir).ok
     /\ AllButTallyDataCarryId(dir, election_event_context_payload(dir).val.election_event_id)
     /\ Cardinality(VcsWithOtherId(dir)) = 1) =>
        LET v == CHOOSE v \in VcsWithOtherId(dir) : TRUE
            events == unwrap(chk).events
        IN  /\ unwrap(chk).outcome = "returned"
            /\ Len(events) = 1
            /\ events[1].kind = "failure"
            /\ dir.vcs_directories[v].name \in Range(events[1].msg)
            /\ \A w \in 1..Len(dir.vcs_directories) :
                   w # v => dir.vcs_directories[w].name \notin Range(events[1].msg)

\* the tally data of the second VCS directory carry another id
C13_Witness ==
    /\ chk # None
    /\ election_event_context_payload(dir).ok
    /\ AllButTallyDataCarryId(dir, election_event_context_payload(dir).val.election_event_id)
    /\ VcsWithOtherId(dir) = {2}
    /\ unwrap(chk).events =
           <<create_verification_failure(
                 <<"Election Event ID not equal in {}",
                   "{}/setup_component_tally_data_payload", VcsNames[2]>>)>>

\* the failure of 01.01 about the control component group
HasGroupFailure ==
    \E i \in 1..Len(unwrap(chk).events) :
        /\ unwrap(chk).events[i].kind = "failure"
        /\ unwrap(chk).events[i].msg[1] =
               "control_component_public_keys_payload_group missing. only these parts are present: {:?}"

\* C14: 01.01 pushes the failure about the control component group exactly
\* when the set of file numbers of the group is not {1, 2, 3, 4}, in whatever
\* order the file system enumerates the files. Checked under Spec0101.
C14_GroupCompleteness ==
    chk # None => (HasGroupFailure <=> Range(read_dir) # {1, 2, 3, 4})

\* the files 1 to 4 are enumerated as 3, 1, 4, 2 and no failure is pushed
\* about the group
C14_Witness ==
    /\ chk # None
    /\ read_dir = <<3, 1, 4, 2>>
    /\ ~HasGroupFailure
    /\ unwrap(chk).events = <<>>

\* the file a message of 01.01 names, read off the text of the message
FileNamedIn(text) ==
    CASE text = "election_event_context_payload does not exist" ->
             "election_event_context_payload"
      [] text = "setup_component_public_keys_payload_file does not exist" ->
             "setup_component_public_keys_payload"
      [] text = "setup_component_tally_data_payload does not exist" ->
             "setup_component_tally_data_payload"
      [] text = "setup_component_verification_data_payload does not exist" ->
             "setup_component_verification_data_payload_group"
      [] text = "control_component_code_shares_payload does not exist" ->
             "control_component_code_shares_payload_group"
      [] OTHER -> "control_component_public_keys_payload_group"

\* the single files of the setup directory 01.01 looks for
SingleFiles0101 ==
    {"election_event_context_payload", "setup_component_public_keys_payload",
     "election_event_configuration"}

\* C15 as stated, for 01.01: for every single file of the setup directory
\* that is missing, a failure was pushed whose message names that file, and
\* every failure that names such a file is about a file that is missing.
\* Checked under Spec0101.
C15_EventsNameTheirFile ==
    chk # None =>
        \A f \in SingleFiles0101 :
            ~exists(dir[f]) <=>
                \E i \in 1..Len(unwrap(chk).events) :
                    /\ unwrap(chk).events[i].kind = "failure"
                    /\ FileNamedIn(unwrap(chk).events[i].msg[1]) = f

\* the number of events of the check with this kind and message
CountEvents(kind, msg) ==
    Cardinality({k \in 1..Len(unwrap(chk).events) :
                    unwrap(chk).events[k] = [kind |-> kind, msg |-> msg]})

\* 0 if the proof verifies for the key with the auxiliary strings, else 1
FailuresDue(proof, key, aux) == IF verify_schnorr(proof, key, aux) THEN 0 ELSE 1

\* the sum of f[x] over the finite set S
RECURSIVE SumOver(_, _)
SumOver(S, f) ==
    IF S = {} THEN 0
    ELSE LET x == CHOOSE x \in S : TRUE IN f[x] + SumOver(S \ {x}, f)

\* C16: when the three payloads load, the Schnorr proof check pushes no
\* error and, with id the election event id of the context payload, for every
\* node j of the aggregate and every (key, proof) pair of its CCR keys exactly
\* one failure if the pair does not verify with [id, "GenKeysCCR", j] and none
\* if it does, likewise for its CCM keys with [id, "SetupTallyCCM", j] and
\* for the electoral board keys with [id, "SetupTallyEB"]; and it pushes
\* nothing else. Checked under Spec503.
C16_SchnorrProofsVerified ==
    (/\ chk # None
     /\ encryption_parameters_payload(dir).ok
     /\ election_event_context_payload(dir).ok
     /\ setup_component_public_keys_payload(dir).ok) =>
        LET id == election_event_context_payload(dir).val.election_event_id
            keys == setup_component_public_keys_payload(dir).val.setup_component_public_keys
            nodes == keys.combined_control_component_public_keys
            ccr == [n \in 1..Len(nodes) |->
                      LET K == nodes[n].ccrj_choice_return_codes_encryption_public_key
                          P == nodes[n].ccrj_schnorr_proofs
                      IN  [i \in ZipPositions(K, P) |->
                              FailuresDue(P[i], K[i],
                                  <<id, "GenKeysCCR", ToString(nodes[n].node_id)>>)]]
            ccm == [n \in 1..Len(nodes) |->
                      LET K == nodes[n].ccmj_election_public_key
                          P == nodes[n].ccmj_schnorr_proofs
                      IN  [i \in ZipPositions(K, P) |->
                              FailuresDue(P[i], K[i],
                                  <<id, "SetupTallyCCM", ToString(nodes[n].node_id)>>)]]
            eb == LET K == keys.electoral_board_public_key
                      P == keys.electoral_board_schnorr_proofs
                  IN  [i \in ZipPositions(K, P) |->
                          FailuresDue(P[i], K[i], <<id, "SetupTallyEB">>)]
        IN  /\ unwrap(chk).outcome = "returned"
            /\ ~HasEvent("error")
            /\ \A n \in 1..Len(nodes) :
                   /\ \A i \in DOMAIN ccr[n] :
                          CountEvents("failure",
                              <<"VerifSchnorrCCRji: Verifiy CCR_j Schnorrproof not ok at pos {} for cc {}",
                                ToString(i - 1), ToString(nodes[n].node_id)>>) = ccr[n][i]
                   /\ \A i \in DOMAIN ccm[n] :
                          CountEvents("failure",
                              <<"VerifSchnorrCCMji: Verifiy CCM_j Schnorrproof not ok at pos {} for cc {}",
                                ToString(i - 1), ToString(nodes[n].node_id)>>) = ccm[n][i]
            /\ \A i \in DOMAIN eb :
                   CountEvents("failure",
                       <<"VerifSchnorrCCRji: Verifiy Electoral board Schnorr proofs not ok at pos {}",
                         ToString(i - 1)>>) = eb[i]
            /\ Len(unwrap(chk).events) =
                   SumOver(1..Len(nodes),
                           [n \in 1..Len(nodes) |->
                               SumOver(DOMAIN ccr[n], ccr[n]) + SumOver(DOMAIN ccm[n], ccm[n])])
                   + SumOver(DOMAIN eb, eb)

\* the CCM proof of node 2 was made with the label of the CCR proofs and the
\* setup component's payload carries another election event id than the
\* context: the only event is the failure about the CCM proof of node 2
C16_Witness ==
    /\ chk # None
    /\ encryption_parameters_payload(dir).ok
    /\ election_event_context_payload(dir).ok
    /\ setup_component_public_keys_payload(dir).ok
    /\ setup_component_public_keys_payload(dir).val.election_event_id
           # election_event_context_payload(dir).val.election_event_id
    /\ setup_component_public_keys_payload(dir).val.setup_component_public_keys
           .combined_control_component_public_keys[2].ccmj_schnorr_proofs
           = <<SchnorrProof(1, <<"EE1", "GenKeysCCR", "2">>)>>
    /\ unwrap(chk).events =
           <<create_verification_failure(
                 <<"VerifSchnorrCCMji: Verifiy CCM_j Schnorrproof not ok at pos {} for cc {}",
                   "0", "2">>)>>


\* the projection h of the record r of a type has no node of the signature
\* and one node of every other field, with the value of the field; this holds
\* of the records within r too
RECURSIVE Covers(_, _, _)
Covers(type, r, h) ==
    LET names == {Fields(type)[i] : i \in 1..Len(Fields(type))} \ {"signature"}
    IN  /\ \A i \in 1..Len(h) : h[i].field \in names
        /\ \A f \in names : Cardinality({i \in 1..Len(h) : h[i].field = f}) = 1
        /\ \A i \in 1..Len(h) :
               LET f == h[i].field
               IN  IF f \in DOMAIN RecordFields
                   THEN ~h[i].leaf /\ Covers(RecordFields[f], r[f], h[i].items)
                   ELSE IF f \in DOMAIN VectorFields
                        THEN /\ ~h[i].leaf
                             /\ Len(h[i].items) = Len(r[f])
                             /\ \A k \in 1..Len(r[f]) :
                                    Covers(VectorFields[f], r[f][k], h[i].items[k].items)
                        ELSE h[i].leaf /\ h[i].value = r[f]

\* the fields of the nodes of a projection, in their order
FieldOrder(h) == [i \in 1..Len(h) |-> h[i].field]

\* the projection of a payload has its fields in the order of the projection
\* of any payload of its type
InTypeOrder(p, h) ==
    LET other == CHOOSE r \in RecordsOf(p.type) : TRUE
    IN  FieldOrder(h) = FieldOrder(HashableMessage_from([type |-> p.type, fields |-> other]))

\* C17: the hashable projection of a payload never holds the signature, holds
\* every other field of the payload exactly once, and holds them in an order
\* fixed for the type of the payload.
C17_HashableCoversFields ==
    hashable # None =>
        LET p == unwrap(signed_payload)
        IN  Covers(p.type, p.fields, unwrap(hashable).val) /\ InTypeOrder(p, unwrap(hashable).val)

\* the payloads other than the setup component public keys are projected as
\* C17 states
C17_CoveredButSetupKeys ==
    (hashable # None /\ unwrap(signed_payload).type # "SetupComponentPublicKeysPayload") =>
        LET p == unwrap(signed_payload)
        IN  Covers(p.type, p.fields, unwrap(hashable).val) /\ InTypeOrder(p, unwrap(hashable).val)

\* the projection of the setup component public keys leaves out only the
\* election event id
C17_OnlyEventIdLeftOut ==
    (hashable # None /\ unwrap(signed_payload).type = "SetupComponentPublicKeysPayload") =>
        LET p == unwrap(signed_payload)
            h == unwrap(hashable).val
        IN  /\ \A i \in 1..Len(h) : h[i].field # "election_event_id"
            /\ Covers("SetupComponentPublicKeys", p.fields.setup_component_public_keys,
                      h[2].items)
            /\ h[1] = Leaf("encryption_group", p.fields.encryption_group)
            /\ Len(h) = 2


\* C26: get_signature() and get_hashable() return on every signed payload type,
\* the XML artifacts EVotingDecrypt and ECH0222 included, without aborting.
C26_SignedTypesNeverAbort ==
    /\ signature # None => unwrap(signature) # Aborted
    /\ hashable # None => unwrap(hashable) # Aborted

\* the JSON payloads return the bytes of their signature field and a
\* HashableMessage
C26_JsonPayloadsReturn ==
    unwrap(signed_payload).type \in PayloadTypes =>
        /\ signature # None => unwrap(signature) = Ok(unwrap(signed_payload).fields.signature)
        /\ hashable # None => unwrap(hashable).ok

\* get_signature() aborts on both XML artifacts, get_hashable() on ECH0222
C26_XmlArtifactsAbort ==
    unwrap(signed_payload).type \in XMLTypes =>
        /\ signature # None => unwrap(signature) = Aborted
        /\ (hashable # None /\ unwrap(signed_payload).type = "ECH0222") =>
               unwrap(hashable) = Aborted


\* C18: once a payload getter of the directory has returned a payload, every
\* later call of the getter returns the same payload, whatever became of the
\* file on disk in between.
C18_PayloadsCached ==
    \A i, j \in 1..Len(returned) :
        (/\ i < j
         /\ returned[i].on = "SetupDirectory"
         /\ returned[j].on = "SetupDirectory"
         /\ returned[i].fct = returned[j].fct
         /\ returned[i].result.ok)
            => returned[j].result = returned[i].result

\* as long as the file stays as it was, a getter returns the same payload
C18_SameWhileFileUnchanged ==
    \A i, j \in 1..Len(returned) :
        (/\ i < j
         /\ returned[i].on = "SetupDirectory"
         /\ returned[j].on = "SetupDirectory"
         /\ returned[i].fct = returned[j].fct
         /\ returned[i].fct \notin ChangedFiles)
            => returned[j].result = returned[i].result

\* the data of the mock_* calls made for a getter (and a file number) before
\* the call c of the getter
MocksBefore(c, nr) ==
    SelectSeq(SubSeq(mock_calls, 1, c.after), LAMBDA m : m.fct = c.fct /\ m.nr = nr)

\* the result is the payload, or an error with the message, given to mock_*
AsMocked(got, data) ==
    IF data.ok THEN got = Ok(data.val) ELSE ~got.ok /\ got.err = data.err

\* the call c of a getter of the mock returned the most recent mocked value,
\* and what the directory returns where nothing was mocked
MostRecentMock(c) ==
    IF c.fct \in PayloadGetters
    THEN LET m == MocksBefore(c, 0)
         IN  IF m = <<>> THEN c.result = c.real ELSE AsMocked(c.result, m[Len(m)].data)
    ELSE IF c.fct \in FileGetters
         THEN LET m == MocksBefore(c, 0)
              IN  IF m = <<>> THEN c.result = c.real ELSE c.result = m[Len(m)].data
         ELSE /\ Len(c.result) = Len(c.real)
              /\ \A k \in 1..Len(c.real) :
                     LET nr == c.real[k][1]
                         m == MocksBefore(c, nr)
                     IN  /\ c.result[k][1] = nr
                         /\ IF m = <<>> THEN c.result[k] = c.real[k]
                            ELSE AsMocked(c.result[k][2], m[Len(m)].data)

\* C19: every getter of a mock directory returns the value of the most recent
\* mock_* call made for it, and what the real directory returns if no such
\* call was made; a mock_* call for another getter changes nothing of it.
C19_MockGetters ==
    \A i \in 1..Len(returned) :
        returned[i].on = "MockSetupDirectory" => MostRecentMock(returned[i])

\* a payload was mocked twice, with a payload and with an error, another
\* getter was mocked in between or not, and the getter was called
C19_Witness ==
    \E i \in 1..Len(returned) :
        LET c == returned[i]
        IN  /\ c.on = "MockSetupDirectory"
            /\ c.fct \in PayloadGetters
            /\ Len(MocksBefore(c, 0)) = 2
            /\ MocksBefore(c, 0)[1].data # MocksBefore(c, 0)[2].data
            /\ c.result # c.real


\* what C20 states of the result r of File::get_data on the file f
DecodedOrError(f, r) ==
    /\ "aborted" \notin DOMAIN r
    /\ ~exists(f) => ~r.ok
    /\ f.state = "unreadable" => ~r.ok
    /\ f.state = "invalid" => ~r.ok
    /\ r.ok <=> f.state = "valid"
    /\ r.ok => r.val = f.content[1]

\* C20: File::get_data never aborts: it returns an error if the file does not
\* exist, cannot be read or does not decode, and the decoded data of the file
\* in every other case.
C20_GetDataNeverAborts ==
    file_data # None => DecodedOrError(file, unwrap(file_data))

\* on a file whose path is a Unicode string, get_data is as C20 states
C20_AsStatedOnUnicodePaths ==
    (file_data # None /\ file.utf8) => DecodedOrError(file, unwrap(file_data))

\* a file that is read and decoded is returned whatever its path
C20_DecodedWhateverThePath ==
    (file_data # None /\ file.state = "valid") => unwrap(file_data) = Ok(file.content[1])


\* C21: check_verification_dir(period, path) is Ok exactly when path is a
\* directory with a setup subdirectory and, for the Tally period, with a tally
\* subdirectory; is_directory_tally(path) errs when path or its setup
\* subdirectory is missing, and tells otherwise whether the tally subdirectory
\* exists.
C21_DatasetDirectoryChecked ==
    \A i \in 1..Len(dir_checks) :
        LET c == dir_checks[i]
            with_setup == fs.path = "dir" /\ fs.setup = "dir"
        IN  IF c.fct = "check_verification_dir"
            THEN c.result.ok <=> (with_setup /\ (c.period = "Tally" => fs.tally = "dir"))
            ELSE IF with_setup THEN c.result = Ok(fs.tally = "dir") ELSE ~c.result.ok

\* a dataset without tally subdirectory was accepted for the Setup period,
\* refused for the Tally period, and is_directory_tally returned false for it
C21_Witness ==
    /\ fs = [path |-> "dir", setup |-> "dir", tally |-> "absent"]
    /\ \E i, j, k \in 1..Len(dir_checks) :
           /\ dir_checks[i].fct = "check_verification_dir"
           /\ dir_checks[i].period = "Setup"
           /\ dir_checks[i].result.ok
           /\ dir_checks[j].fct = "check_verification_dir"
           /\ dir_checks[j].period = "Tally"
           /\ ~dir_checks[j].result.ok
           /\ dir_checks[k].fct = "is_directory_tally"
           /\ dir_checks[k].result.ok
           /\ ~dir_checks[k].result.val

\* C22: a verification that has started running runs to completion: whenever
\* run() has set the status to Running, the status eventually is Finished with
\* a recorded duration.
C22_RunsToCompletion ==
    (status = "Running") ~> (status = "Finished" /\ duration # None)

\* a run completes unless it panics
C22_CompletesUnlessPanic ==
    (status = "Running") ~> ((status = "Finished" /\ duration # None) \/ pc = "panicked")


\* C23: while the status is Stopped or Running, is_ok(), has_errors() and
\* has_failures() all return None; once it is Finished they all return Some.
C23_NoClassificationBeforeFinished ==
    /\ status \in {"Stopped", "Running"} =>
           /\ Verification_is_ok = None
           /\ Verification_has_errors = None
           /\ Verification_has_failures = None
    /\ status = "Finished" =>
           /\ Verification_is_ok # None
           /\ Verification_has_errors # None
           /\ Verification_has_failures # None

\* the check function has pushed an error and has not returned yet
C23_Witness ==
    /\ status = "Running"
    /\ pc = "running"
    /\ Verification_errors # <<>>
    /\ Verification_has_errors = None
    /\ Verification_is_ok = None


\* the events the check function has pushed so far in the first run
PushedInOrder == SubSeq(verification_fn, 1, next_event - 1)

\* the result of a check function that pushes the events g into a new result
RECURSIVE ResultOf(_)
ResultOf(g) ==
    IF g = <<>> THEN VerificationResult_new
    ELSE LET before == ResultOf(SubSeq(g, 1, Len(g) - 1))
             e == g[Len(g)]
         IN  IF e.kind = "error" THEN push_error(before, e.msg)
                                 ELSE push_failure(before, e.msg)

\* C24: within a single check, the events can be read back in the order in
\* which the check pushed them, the relative order of an error and a failure
\* included: what errors() and failures() return determines the sequence of
\* the events pushed.
C24_EventsReadBackInOrder ==
    runs = 0 =>
        \A g \in CheckFunctions :
            (ResultOf(g).errors = Verification_errors
             /\ ResultOf(g).failures = Verification_failures) => g = PushedInOrder

\* the errors are read back in the order pushed, and so are the failures
C24_OrderWithinEachKind ==
    runs = 0 =>
        LET Of(kind) == SelectSeq(PushedInOrder, LAMBDA e : e.kind = kind)
        IN  /\ Verification_errors = [i \in 1..Len(Of("error")) |-> Of("error")[i].msg]
            /\ Verification_failures = [i \in 1..Len(Of("failure")) |-> Of("failure")[i].msg]


\* C25: whatever the threads that call get_schema, the schema of a kind is
\* built and published at most once, every caller of a kind gets the one
\* schema of that kind, which stays in its cell as it was published, and the
\* schemas of different kinds are in different cells.
C25_SchemaPublishedOnce ==
    /\ \A k \in SchemaKinds : constructions[k] <= 1
    /\ \A t \in Threads :
           threads[t].pc = "returned" =>
               /\ threads[t].got # None
               /\ unwrap(threads[t].got).schema_kind = threads[t].kind
               /\ cells[CellOf(threads[t].kind)] =
                      [state |-> "set", value |-> threads[t].got]
    /\ \A t, u \in Threads :
           (threads[t].pc = "returned" /\ threads[u].pc = "returned") =>
               IF threads[t].kind = threads[u].kind
               THEN threads[t].got = threads[u].got
               ELSE /\ threads[t].got # threads[u].got
                    /\ CellOf(threads[t].kind) # CellOf(threads[u].kind)

\* two threads asked for the schema of one kind: one built it, the other got
\* the schema the first one built
C25_Witness ==
    \E t, u \in Threads :
        /\ t # u
        /\ threads[t].pc = "returned"
        /\ threads[u].pc = "returned"
        /\ threads[t].kind = threads[u].kind
        /\ threads[t].built # None
        /\ threads[u].built = None
        /\ threads[u].got = threads[t].built
        /\ constructions[threads[t].kind] = 1

\* C27: whatever the exclusion list, unknown and repeated ids included, the
\* checks of a suite and its excluded checks add up to the implemented checks
\* of the period, and is_empty() holds exactly when len() is 0.
C27_LenPlusExcluded ==
    suite # None =>
        LET s == unwrap(suite)
        IN  /\ len(s) + len_excluded(s) = Cardinality(Implemented(suite_args.period))
            /\ is_empty(s) <=> (len(s) = 0)

\* the sum is the number of implemented checks when no id is repeated in the
\* exclusion list
C27_SumWithoutRepeatedIds ==
    (suite # None /\ Cardinality(Range(suite_args.exclusion)) = Len(suite_args.exclusion)) =>
        LET s == unwrap(suite)
        IN  /\ len(s) + len_excluded(s) = Cardinality(Implemented(suite_args.period))
            /\ is_empty(s) <=> (len(s) = 0)

\* a repeated id of an implemented check is counted by len_excluded() as often
\* as it is given, and removed from the checks once
C27_RepeatedIdsCounted ==
    suite # None =>
        LET s == unwrap(suite)
            impl == Implemented(suite_args.period)
        IN  /\ len_excluded(s) = Len(Restrict(suite_args.exclusion, impl))
            /\ len(s) = Cardinality(impl \ Range(suite_args.exclusion))

\* the (keys, proofs) vector pairs the Schnorr proof check zips, with the
\* auxiliary strings of each: the CCR and the CCM pair of every node and the
\* pair of the electoral board
SchnorrVectorPairs(d) ==
    LET id == election_event_context_payload(d).val.election_event_id
        keys == setup_component_public_keys_payload(d).val.setup_component_public_keys
        nodes == keys.combined_control_component_public_keys
    IN  {[K |-> nodes[n].ccrj_choice_return_codes_encryption_public_key,
          P |-> nodes[n].ccrj_schnorr_proofs,
          aux |-> <<id, "GenKeysCCR", ToString(nodes[n].node_id)>>] : n \in 1..Len(nodes)}
        \cup
        {[K |-> nodes[n].ccmj_election_public_key,
          P |-> nodes[n].ccmj_schnorr_proofs,
          aux |-> <<id, "SetupTallyCCM", ToString(nodes[n].node_id)>>] : n \in 1..Len(nodes)}
        \cup
        {[K |-> keys.electoral_board_public_key,
          P |-> keys.electoral_board_schnorr_proofs,
          aux |-> <<id, "SetupTallyEB">>]}

SchnorrPayloadsLoad ==
    /\ encryption_parameters_payload(dir).ok
    /\ election_event_context_payload(dir).ok
    /\ setup_component_public_keys_payload(dir).ok

\* C28: in the Schnorr proof check no key is left unverified without an event:
\* a key vector and a proof vector of different lengths result in at least
\* one event.
C28_NoKeyLeftUnverified ==
    (/\ chk # None
     /\ SchnorrPayloadsLoad
     /\ \E v \in SchnorrVectorPairs(dir) : Len(v.K) # Len(v.P)) =>
        unwrap(chk).events # <<>>

\* the check pushes nothing when every position that has both a key and a
\* proof verifies, whatever the lengths of the vectors
C28_SilentOnUnpairedPositions ==
    (/\ chk # None
     /\ SchnorrPayloadsLoad
     /\ \A v \in SchnorrVectorPairs(dir) :
            \A i \in ZipPositions(v.K, v.P) : verify_schnorr(v.P[i], v.K[i], v.aux)) =>
        unwrap(chk).events = <<>>

\* 1 if the condition holds, else 0
Count(b) == IF b THEN 1 ELSE 0

\* the number of files of the group that are there and satisfy P
CountFiles(group, P(_)) == Cardinality({i \in Range(get_numbers(group)) : P(group[i])})

\* the number of events of the check of this kind
CountKind(kind) ==
    Cardinality({k \in 1..Len(unwrap(chk).events) : unwrap(chk).events[k].kind = kind})

\* the number of payloads 03.09 looks at after the context payload that do not load
NotLoading0309(d) ==
    LET NotOk(f) == ~get_data(f).ok
    IN  Count(~setup_component_public_keys_payload(d).ok)
        + CountFiles(d.control_component_public_keys_payload_group, NotOk)
        + SumOver(1..Len(d.vcs_directories),
              [v \in 1..Len(d.vcs_directories) |->
                  LET vcs == d.vcs_directories[v]
                  IN  Count(~setup_component_tally_data_payload(vcs).ok)
                      + CountFiles(vcs.control_component_code_shares_payload_group, NotOk)
                      + CountFiles(vcs.setup_component_verification_data_payload_group,
                                   NotOk)])

\* the number of loaded records whose election event id is not id; a file of
\* code shares holds one record per chunk
Differing0309(d, id) ==
    LET Differs(f) == get_data(f).ok /\ get_data(f).val.election_event_id # id
        sc == setup_component_public_keys_payload(d)
    IN  Count(sc.ok /\ sc.val.election_event_id # id)
        + CountFiles(d.control_component_public_keys_payload_group, Differs)
        + SumOver(1..Len(d.vcs_directories),
              [v \in 1..Len(d.vcs_directories) |->
                  LET vcs == d.vcs_directories[v]
                      tally == setup_component_tally_data_payload(vcs)
                      shares == vcs.control_component_code_shares_payload_group
                      loaded == {i \in Range(get_numbers(shares)) : get_data(shares[i]).ok}
                  IN  Count(tally.ok /\ tally.val.election_event_id # id)
                      + SumOver(loaded,
                            [i \in loaded |->
                                Cardinality({c \in 1..Len(get_data(shares[i]).val) :
                                    get_data(shares[i]).val[c].election_event_id # id})])
                      + CountFiles(vcs.setup_component_verification_data_payload_group,
                                   Differs)])

\* C29: when the election event context payload does not load, 03.09 pushes
\* exactly one error and nothing else; when it loads, every other payload that
\* does not load contributes exactly one error without stopping the check and
\* every loaded record with another election event id than the context's
\* contributes exactly one failure, so that the check passes exactly when all
\* payloads load and all ids are equal. Checked under Spec0309.
C29_ElectionEventIdContract ==
    chk # None =>
        LET ctx == election_event_context_payload(dir)
            events == unwrap(chk).events
        IN  /\ unwrap(chk).outcome = "returned"
            /\ IF ~ctx.ok
               THEN /\ Len(events) = 1
                    /\ events[1].kind = "error"
               ELSE LET id == ctx.val.election_event_id
                    IN  /\ CountKind("error") = NotLoading0309(dir)
                        /\ CountKind("failure") = Differing0309(dir, id)
                        /\ Len(events) = NotLoading0309(dir) + Differing0309(dir, id)
                        /\ (events = <<>>) <=>
                               (NotLoading0309(dir) = 0 /\ Differing0309(dir, id) = 0)

\* the context loads, a payload of a VCS directory does not load and a record
\* of a VCS directory carries another id: one error and one failure
C29_Witness ==
    /\ chk # None
    /\ election_event_context_payload(dir).ok
    /\ \E v \in 1..Len(dir.vcs_directories) :
           ~setup_component_tally_data_payload(dir.vcs_directories[v]).ok
    /\ CountKind("error") = 1
    /\ CountKind("failure") = 1
    /\ Len(unwrap(chk).events) = 2

\* the context does not load: the one error, and nothing about the payloads
\* that do not load either
C29_WitnessContext ==
    /\ chk # None
    /\ ~election_event_context_payload(dir).ok
    /\ NotLoading0309(dir) >= 1
    /\ unwrap(chk).events =
           <<create_verification_error(<<"Cannot extract election_event_context_payload">>)>>

C30_WitnessSetup ==
    /\ vdir_period = "Setup"
    /\ vdir # None
    /\ Len(vdir_calls) = 2
    /\ vdir_calls[1].fct = "is_setup"
    /\ vdir_calls[1].result
    /\ vdir_calls[2].fct = "unwrap_tally"
    /\ vdir_calls[2].result = Aborted

====
